---- MODULE Spec2Model ----
(***************************************************************************)
(* Model of the graph registry (GraphRegistry), the connection builder    *)
(* (NodeFactory) and the view objects that drive them (NodeItem,          *)
(* GroupItem, PortLabel, ConnectionItem, GraphScene).                     *)
(*                                                                         *)
(* Objects are identified by model ids that stand for their addresses:    *)
(*   node   "A", "B", "C"        (a node object is constructed once)      *)
(*   group  "G1", "G2", ...      (in order of construction)               *)
(*   port   <<owner, orientation, target owner, generation>>              *)
(*   connection 1, 2, ...        (in order of construction)               *)
(* Names are the program's strings: a node's name is its id, a group's    *)
(* name is built by buildTitle, a forward port's name is                  *)
(* moduleName + "_" + portName of the port it mirrors.                    *)
(*                                                                         *)
(* The specifications share the state and the registry operators:         *)
(*   Spec          the editor: nodes, ports, tags, connections, groups     *)
(*   SpecRegistry  the registry's mutators called directly, as a friend    *)
(*                 class (the test fixture) can                            *)
(*   SpecThreads   two threads inside registry calls, step by step         *)
(*   SpecPorts     ports added by name, port mutators called directly      *)
(*   SpecActive    activateNode / deactivateNode on connected nodes        *)
(*   SpecForward   forwarding mutators called directly                     *)
(*   SpecWidgets   grouping nodes whose parameter widget is a container    *)
(*   SpecGroupCtor the GroupItem constructor, base and body as two steps   *)
(*   SpecTags      the tag registry and TagApplicator::registerTag         *)
(*   SpecApplicator  registerTag, unregisterAllTags and apply by name      *)
(*   SpecConnect   createConnectionBetweenPorts run by two threads         *)
(*   SpecRegistryGroups  registry mutators called directly, with a group   *)
(*   SpecOverlap   a node with an Input and an Output port, grouped twice  *)
(*   SpecQueries   hasConnection / getConnections frame by frame, over a   *)
(*                 group of a group; SpecQueriesFair adds the scheduling   *)
(***************************************************************************)
EXTENDS Integers, Sequences, FiniteSets, TLC

\* ---------------------------------------------------------------- bounds
MaxGroups == 1      \* group objects ever constructed
MaxConns  == 2      \* connection objects ever constructed
MaxGen    == 0      \* times a port of one node and orientation is re-created
MaxNodeId == 4      \* node ids handed out by direct registerNode calls

MaxNamedPorts == 2  \* ports a node is given by name
MaxFanOut == 2      \* concrete ports registered under one forward port
MaxTags == 2        \* slots of the tag registry (the capacity N)
MaxOverlap == 2     \* group objects ever constructed over a shared member
MaxDepth == 8       \* frames on the call stack of one thread

\* ---------------------------------------------------------------- universe
Nodes == {"A", "B", "C"}
NodeOrder == <<"A", "B", "C">>
Tags == {"Int", "Float"}
Orientations == {"Input", "Output", "Parameter"}
\* the ports a caller adds to each node
Shape == [n \in Nodes |->
            CASE n = "A" -> {"Output"}
              [] n = "B" -> {"Input", "Parameter"}
              [] n = "C" -> {"Output"}]
\* the tags a caller gives the port of each node and orientation
Palette == [n \in Nodes |-> [o \in Orientations |->
              IF n = "A" /\ o = "Output" THEN {"Int", "Float"} ELSE {"Int"}]]
\* the selections a caller groups, and the port a caller removes
GroupSets == {{"A"}, {"A", "B"}}
Removable == {<<"B", "Input">>}
\* the widget handed to addParameter: one the visitor clones
WidgetKinds == {"leaf"}
\* a container widget (QScrollArea) around one the visitor clones
ContainerKinds == {"scroll"}
\* the names a caller gives ports: one is a prefix of the other; and the
\* node whose ports are added by name and handed to the registry directly
PortNames == {"in", "in2"}
Probed == {"B"}

NoItem == "none"
NoConn == 0
NoPort == <<"none", "none", "none", 0>>

GroupId(k) == "G" \o ToString(k)
GroupIds == {GroupId(k) : k \in 1..MaxOverlap}
GroupOrder == [k \in 1..MaxOverlap |-> GroupId(k)]

PortNameOf(ori) ==
    CASE ori = "Input" -> "in"
      [] ori = "Output" -> "out"
      [] ori = "Parameter" -> "par"

VARIABLES
    items,          \* constructed NodeItem / GroupItem objects
    ports,          \* constructed PortLabel objects
    conns,          \* constructed ConnectionItem objects
    portGen,        \* ports constructed so far per node and orientation
    groupCount,     \* GroupItem objects constructed so far
    connCount,      \* ConnectionItem objects constructed so far
    m_nodes,        \* GraphRegistry::m_nodes
    m_groups,       \* GraphRegistry::m_groups
    m_nextNodeId,   \* GraphRegistry::m_nextNodeId
    m_nextGroupId,  \* GraphRegistry::m_nextGroupId
    threads,        \* GraphRegistry::m_mutex and the calls in progress on each thread
    tagRegistry,    \* TagRegistry: index of each tag type, and the free-list
    tagApplicator,  \* TagApplicator::nameToIndex and TagApplicator::indexToApply
    taggable,       \* the bitmask of one Taggable object, as the set of its bits
    last            \* the last call and what it returned

vars == <<items, ports, conns, portGen, groupCount, connCount,
          m_nodes, m_groups, m_nextNodeId, m_nextGroupId, threads,
          tagRegistry, tagApplicator, taggable, last>>

\* ---------------------------------------------------------------- helpers
MapPut(f, k, v) == [x \in (DOMAIN f) \cup {k} |-> IF x = k THEN v ELSE f[x]]
MapRemove(f, k) == [x \in (DOMAIN f) \ {k} |-> f[x]]
MapGet(f, k) == IF k \in DOMAIN f THEN f[k] ELSE <<>>
\* QMap::operator[] followed by push_back
MapAppend(f, k, v) == MapPut(f, k, Append(MapGet(f, k), v))
EmptyMap == <<>>

RECURSIVE RemoveAll(_, _)
RemoveAll(s, x) ==
    IF s = <<>> THEN <<>>
    ELSE IF Head(s) = x THEN RemoveAll(Tail(s), x)
    ELSE <<Head(s)>> \o RemoveAll(Tail(s), x)

RECURSIVE RemoveOne(_, _)
RemoveOne(s, x) ==
    IF s = <<>> THEN <<>>
    ELSE IF Head(s) = x THEN Tail(s)
    ELSE <<Head(s)>> \o RemoveOne(Tail(s), x)

Range(s) == {s[i] : i \in DOMAIN s}

\* the first element of the sequence order that lies in S, or none
RECURSIVE FirstIn(_, _, _)
FirstIn(order, S, none) ==
    IF order = <<>> THEN none
    ELSE IF Head(order) \in S THEN Head(order)
    ELSE FirstIn(Tail(order), S, none)

\* ---------------------------------------------------------------- PortLabel
OwnerOf(p) == p[1]
getOrientation(p) == p[2]
isInputPort(p) == getOrientation(p) = "Input"
isOutputPort(p) == getOrientation(p) = "Output"
isParameterPort(p) == getOrientation(p) = "Parameter"
isAnyInputPort(p) == getOrientation(p) = "Input" \/ getOrientation(p) = "Parameter"
name(p) == ports[p].name
moduleName(p) == ports[p].module
\* a port is a child item of its owner: hidden with it (changeNodeVisibility)
isVisible(p) == OwnerOf(p) \in DOMAIN items /\ items[OwnerOf(p)].visible
\* ConnectionPort: the strings a connection keeps of an end
getConnectionPortData(p) == [portName |-> name(p), moduleName |-> moduleName(p),
                             isInput |-> isAnyInputPort(p)]

\* ---------------------------------------------------------------- Taggable
getTagBitMask(p) == ports[p].tags
\* forward->copyTagsFrom(*actual): the tag set forward has afterwards
copyTagsFrom(forward, actual) == getTagBitMask(actual)
haveSameTags(p, q) == getTagBitMask(p) = getTagBitMask(q)

\* ---------------------------------------------------------------- ConnectionItem
NoEnd == [portName |-> "", moduleName |-> "", isInput |-> FALSE]
\* ConnectionItem(port1, port2): addPort files each end by its isInput flag
ConnectionItem(d1, d2) ==
    LET one == IF d1.isInput THEN [inputPort |-> d1, outputPort |-> NoEnd]
                             ELSE [inputPort |-> NoEnd, outputPort |-> d1]
    IN  IF d2.isInput THEN [one EXCEPT !.inputPort = d2]
                      ELSE [one EXCEPT !.outputPort = d2]

\* ---------------------------------------------------------------- GraphRegistry: lookups
\* QMap iterates in key order; the model takes object ids in construction order
ItemOrder == NodeOrder \o GroupOrder

lookupNodeUnlocked(n) == n \in DOMAIN m_nodes
lookupGroupUnlocked(g) == g \in DOMAIN m_groups

nodeName(n) == items[n].name

findNode(nm) ==
    FirstIn(ItemOrder, {n \in DOMAIN m_nodes : n \in DOMAIN items /\ nodeName(n) = nm}, NoItem)

findGroup(nm) ==
    FirstIn(GroupOrder, {g \in DOMAIN m_groups : g \in DOMAIN items /\ nodeName(g) = nm}, NoItem)

\* the three forwarding tables of one group descriptor, looked up for one key
ForwardListsOf(gd, f) ==
    MapGet(gd.forwardInputsDescriptor, f) \o MapGet(gd.forwardOutputsDescriptor, f)
        \o MapGet(gd.forwardParametersInputsDescriptor, f)

RECURSIVE ForwardedFrom(_, _)
ForwardedFrom(f, order) ==
    IF order = <<>> THEN <<>>
    ELSE (IF Head(order) \in DOMAIN m_groups
          THEN ForwardListsOf(m_groups[Head(order)], f) ELSE <<>>)
         \o ForwardedFrom(f, Tail(order))

getAllForwardedPortsFromAPort(forwardPort) == ForwardedFrom(forwardPort, GroupOrder)

\* the keys of one forwarding table whose target list holds actual, in key order
ForwardKeysTo(mp, actual) == {f \in DOMAIN mp : actual \in Range(mp[f])}

getAllPortsForwardedToAPort(actual) ==
    UNION {ForwardKeysTo(m_groups[g].forwardInputsDescriptor, actual)
             \cup ForwardKeysTo(m_groups[g].forwardOutputsDescriptor, actual)
             \cup ForwardKeysTo(m_groups[g].forwardParametersInputsDescriptor, actual)
           : g \in DOMAIN m_groups}

\* the connection lists one node descriptor keeps for a port
DescriptorListsOf(nd, port) ==
    MapGet(nd.inputsDescriptor, port) \o MapGet(nd.outputsDescriptor, port)
        \o MapGet(nd.parametersInputsDescriptor, port)

RECURSIVE getConnections(_)
RECURSIVE ConnectionsOfAll(_)
RECURSIVE GroupPortConnections(_, _)

\* getConnections of every port of a list, concatenated
ConnectionsOfAll(actualPorts) ==
    IF actualPorts = <<>> THEN <<>>
    ELSE getConnections(Head(actualPorts)) \o ConnectionsOfAll(Tail(actualPorts))

GroupPortConnections(forwardPort, order) ==
    IF order = <<>> THEN <<>>
    ELSE (IF Head(order) \in DOMAIN m_groups
          THEN LET gd == m_groups[Head(order)]
               IN  ConnectionsOfAll(MapGet(gd.forwardInputsDescriptor, forwardPort))
                   \o ConnectionsOfAll(MapGet(gd.forwardOutputsDescriptor, forwardPort))
                   \o ConnectionsOfAll(MapGet(gd.forwardParametersInputsDescriptor, forwardPort))
          ELSE <<>>)
         \o GroupPortConnections(forwardPort, Tail(order))

getConnectionsFromGroupPort(forwardPort) == GroupPortConnections(forwardPort, GroupOrder)

getConnections(port) ==
    LET ownerNode == findNode(moduleName(port))
    IN  IF ownerNode = NoItem
        THEN getConnectionsFromGroupPort(port)      \* "its a group"
        ELSE DescriptorListsOf(m_nodes[ownerNode], port)

RECURSIVE hasConnection(_)
hasConnection(port) ==
    LET forwardsPorts == getAllForwardedPortsFromAPort(port)
    IN  \/ \E i \in DOMAIN forwardsPorts : hasConnection(forwardsPorts[i])
        \/ getConnections(port) # <<>>

\* the first connection of fromPort whose other end carries the given names
findConnection(fromPort, portName, modName) ==
    LET cs == getConnections(fromPort)
        hit(c) == IF isAnyInputPort(fromPort)
                  THEN conns[c].outputPort.portName = portName
                       /\ conns[c].outputPort.moduleName = modName
                  ELSE conns[c].inputPort.portName = portName
                       /\ conns[c].inputPort.moduleName = modName
        idx == {i \in DOMAIN cs : hit(cs[i])}
    IN  IF idx = {} THEN NoConn
        ELSE cs[CHOOSE i \in idx : \A j \in idx : i <= j]

hasConnectionTo(fromPort, toPort) ==
    LET in  == IF isAnyInputPort(fromPort) THEN fromPort
               ELSE IF isAnyInputPort(toPort) THEN toPort ELSE NoPort
        out == IF isOutputPort(fromPort) THEN fromPort
               ELSE IF isOutputPort(toPort) THEN toPort ELSE NoPort
    IN  IF in = NoPort \/ out = NoPort THEN FALSE
        ELSE findConnection(in, name(out), moduleName(out)) # NoConn

\* ---------------------------------------------------------------- GraphRegistry: mutations
\* each takes the node table it works on and returns the table it leaves
NewNodeDescriptor(n, uid) ==
    [uid |-> uid, node |-> n, inputsDescriptor |-> EmptyMap,
     outputsDescriptor |-> EmptyMap, parametersInputsDescriptor |-> EmptyMap]

NewGroupDescriptor(g, uid) ==
    [uid |-> uid, group |-> g, memberNodes |-> <<>>,
     forwardInputsDescriptor |-> EmptyMap, forwardOutputsDescriptor |-> EmptyMap,
     forwardParametersInputsDescriptor |-> EmptyMap]

registerInput(mn, n, p) ==
    IF isInputPort(p) /\ n \in DOMAIN mn
    THEN [mn EXCEPT ![n].inputsDescriptor = MapPut(@, p, <<>>)] ELSE mn

\* registerOutput taking a port of any orientation
registerOutput_AnyPort(mn, n, p) ==
    IF n \in DOMAIN mn
    THEN [mn EXCEPT ![n].outputsDescriptor = MapPut(@, p, <<>>)] ELSE mn

registerOutput(mn, n, p) ==
    IF isOutputPort(p) /\ n \in DOMAIN mn
    THEN [mn EXCEPT ![n].outputsDescriptor = MapPut(@, p, <<>>)] ELSE mn

registerParameter(mn, n, p) ==
    IF isParameterPort(p) /\ n \in DOMAIN mn
    THEN [mn EXCEPT ![n].parametersInputsDescriptor = MapPut(@, p, <<>>)] ELSE mn

unregisterInput(mn, n, p) ==
    IF isInputPort(p) /\ n \in DOMAIN mn
    THEN [mn EXCEPT ![n].inputsDescriptor = MapRemove(@, p)] ELSE mn

unregisterOutput(mn, n, p) ==
    IF isOutputPort(p) /\ n \in DOMAIN mn
    THEN [mn EXCEPT ![n].outputsDescriptor = MapRemove(@, p)] ELSE mn

unregisterParameter(mn, n, p) ==
    IF n \in DOMAIN mn
    THEN [mn EXCEPT ![n].parametersInputsDescriptor = MapRemove(@, p)] ELSE mn

\* the two ends as registerConnection classifies them: <<inPort, outPort>>
ClassifyEnds(from, to) ==
    IF isAnyInputPort(from)
    THEN <<from, IF isOutputPort(to) THEN to ELSE NoPort>>
    ELSE <<to, IF isOutputPort(from) THEN from ELSE NoPort>>

\* the owner registerConnection resolves for a port: a node, else a group
OwnerByName(port) ==
    IF findNode(moduleName(port)) # NoItem THEN findNode(moduleName(port))
    ELSE findGroup(moduleName(port))

registerConnection(mn, from, to, c) ==
    LET ends    == ClassifyEnds(from, to)
        inPort  == ends[1]
        outPort == ends[2]
    IN  IF inPort = NoPort \/ outPort = NoPort THEN mn
        ELSE LET outNode == OwnerByName(outPort)
                 inNode  == OwnerByName(inPort)
             IN  IF inNode = NoItem \/ outNode = NoItem THEN mn
                 ELSE LET mn1 == IF outNode \in DOMAIN mn
                                 THEN [mn EXCEPT ![outNode].outputsDescriptor =
                                                     MapAppend(@, outPort, c)]
                                 ELSE mn
                      IN  IF inNode \in DOMAIN mn1
                          THEN [mn1 EXCEPT ![inNode].inputsDescriptor =
                                               MapAppend(@, inPort, c)]
                          ELSE mn1

SweepMap(mp, c) == [p \in DOMAIN mp |-> RemoveAll(mp[p], c)]

\* unregisterConnection sweeping the input lists only
unregisterConnection_InputsOnly(mn, c) ==
    [n \in DOMAIN mn |-> [mn[n] EXCEPT !.inputsDescriptor = SweepMap(@, c)]]

unregisterConnection(mn, c) ==
    [n \in DOMAIN mn |->
        [mn[n] EXCEPT !.inputsDescriptor = SweepMap(@, c),
                      !.outputsDescriptor = SweepMap(@, c),
                      !.parametersInputsDescriptor = SweepMap(@, c)]]

\* copyTagsFrom is the caller's part; these return the group table
registerForwardInput(mg, g, forward, actual) ==
    IF g \in DOMAIN mg
    THEN [mg EXCEPT ![g].forwardInputsDescriptor = MapAppend(@, forward, actual)] ELSE mg

\* registerForwardOutput keeping only the port registered last
registerForwardOutput_Replace(mg, g, forward, actual) ==
    IF g \in DOMAIN mg
    THEN [mg EXCEPT ![g].forwardOutputsDescriptor = MapPut(@, forward, <<actual>>)] ELSE mg

registerForwardOutput(mg, g, forward, actual) ==
    IF g \in DOMAIN mg
    THEN [mg EXCEPT ![g].forwardOutputsDescriptor = MapAppend(@, forward, actual)] ELSE mg

registerForwardParameter(mg, g, forward, actual) ==
    IF g \in DOMAIN mg
    THEN [mg EXCEPT ![g].forwardParametersInputsDescriptor = MapAppend(@, forward, actual)]
    ELSE mg

unregisterForwardPort(mg, g, forward) ==
    IF g \in DOMAIN mg
    THEN [mg EXCEPT ![g].forwardInputsDescriptor = MapRemove(@, forward),
                    ![g].forwardOutputsDescriptor = MapRemove(@, forward),
                    ![g].forwardParametersInputsDescriptor = MapRemove(@, forward)]
    ELSE mg

\* ---------------------------------------------------------------- NodeFactory
\* PortsAreCompatible without the check that the would-be sink is free
PortsAreCompatible_NoSinkCheck(port1, port2) ==
    /\ isVisible(port1) /\ isVisible(port2)
    /\ OwnerOf(port1) # OwnerOf(port2)
    /\ ~((isAnyInputPort(port1) /\ isAnyInputPort(port2))
         \/ (isOutputPort(port1) /\ isOutputPort(port2)))
    /\ ~(Cardinality(getTagBitMask(port1)) = 0 \/ Cardinality(getTagBitMask(port2)) = 0)
    /\ haveSameTags(port1, port2)

\* PortsAreCompatible looking for an existing connection at port1 only
PortsAreCompatible_FirstSinkOnly(port1, port2) ==
    /\ isVisible(port1) /\ isVisible(port2)
    /\ OwnerOf(port1) # OwnerOf(port2)
    /\ ~((isAnyInputPort(port1) /\ isAnyInputPort(port2))
         \/ (isOutputPort(port1) /\ isOutputPort(port2)))
    /\ ~(Cardinality(getTagBitMask(port1)) = 0 \/ Cardinality(getTagBitMask(port2)) = 0)
    /\ ~(isAnyInputPort(port1) /\ hasConnection(port1))
    /\ haveSameTags(port1, port2)

\* PortsAreCompatible accepting tag sets that merely share a tag
PortsAreCompatible_SharedTag(port1, port2) ==
    /\ isVisible(port1) /\ isVisible(port2)
    /\ OwnerOf(port1) # OwnerOf(port2)
    /\ ~((isAnyInputPort(port1) /\ isAnyInputPort(port2))
         \/ (isOutputPort(port1) /\ isOutputPort(port2)))
    /\ ~(Cardinality(getTagBitMask(port1)) = 0 \/ Cardinality(getTagBitMask(port2)) = 0)
    /\ ~(isAnyInputPort(port1) /\ hasConnection(port1))
    /\ ~(isAnyInputPort(port2) /\ hasConnection(port2))
    /\ getTagBitMask(port1) \cap getTagBitMask(port2) # {}

PortsAreCompatible(port1, port2) ==
    /\ isVisible(port1) /\ isVisible(port2)
    /\ OwnerOf(port1) # OwnerOf(port2)
    /\ ~((isAnyInputPort(port1) /\ isAnyInputPort(port2))
         \/ (isOutputPort(port1) /\ isOutputPort(port2)))
    /\ ~(Cardinality(getTagBitMask(port1)) = 0 \/ Cardinality(getTagBitMask(port2)) = 0)
    /\ ~(isAnyInputPort(port1) /\ hasConnection(port1))
    /\ ~(isAnyInputPort(port2) /\ hasConnection(port2))
    /\ haveSameTags(port1, port2)

\* the concrete port behind a forward port whose name follows <module>_<port>
ConcreteOf(port) ==
    LET fwd == getAllForwardedPortsFromAPort(port)
        idx == {i \in DOMAIN fwd : moduleName(fwd[i]) \o "_" \o name(fwd[i]) = name(port)}
    IN  IF idx = {} THEN port
        ELSE fwd[CHOOSE i \in idx : \A j \in idx : i <= j]

\* whether createConnectionBetweenPorts constructs a connection
Connects(fromPort, toPort) ==
    PortsAreCompatible(fromPort, toPort) /\ ~hasConnectionTo(fromPort, toPort)

\* ---------------------------------------------------------------- NodeItem / GroupItem
NodeIds == {n \in DOMAIN items : items[n].kind = "node"}
GroupItems == {g \in DOMAIN items : items[g].kind = "group"}

RECURSIVE SeqOfSet(_)
SeqOfSet(S) ==
    IF S = {} THEN <<>>
    ELSE LET x == CHOOSE y \in S : TRUE IN <<x>> \o SeqOfSet(S \ {x})

\* NodeItem::getAllPorts
getAllPorts(n) == items[n].inputs \o items[n].outputs \o SeqOfSet(items[n].params)

LivePorts == UNION {Range(getAllPorts(n)) : n \in DOMAIN items}
NodePorts == UNION {Range(getAllPorts(n)) : n \in NodeIds}

NewItem(kind, nm, members) ==
    [kind |-> kind, name |-> nm, visible |-> TRUE, active |-> FALSE,
     inputs |-> <<>>, outputs |-> <<>>, params |-> {}, members |-> members,
     pending |-> FALSE]

NewPort(nm, module, widget) ==
    [name |-> nm, module |-> module, tags |-> {}, widget |-> widget]

\* a call on ports and the connection it made, or a call on an item and the
\* value it returned
Last(op, a, b, c) == [op |-> op, a |-> a, b |-> b, c |-> c, item |-> NoItem, ret |-> 0]
LastCall(op, item, ret) ==
    [op |-> op, a |-> NoPort, b |-> NoPort, c |-> NoConn, item |-> item, ret |-> ret]

\* registerNode numbering a new descriptor by the size of the table
registerNode_SizeId(mn, n, uid) ==
    IF n \in DOMAIN mn THEN mn
    ELSE MapPut(mn, n, NewNodeDescriptor(n, Cardinality(DOMAIN mn) + 1))

\* registerNode replacing the descriptor of a node that is registered
registerNode_Fresh(mn, n, uid) == MapPut(mn, n, NewNodeDescriptor(n, uid))

\* dynamic_cast<GroupItem*>(n): succeeds on an object whose GroupItem
\* constructor body has been entered; inside the NodeItem base constructor the
\* object is not in items yet and the cast fails
dynamicCastGroupItem(n) == n \in DOMAIN items /\ items[n].kind = "group"

\* GraphRegistry::registerNode: the node table afterwards
registerNode(mn, n, uid) ==
    IF dynamicCastGroupItem(n) THEN mn
    ELSE IF n \in DOMAIN mn THEN mn ELSE MapPut(mn, n, NewNodeDescriptor(n, uid))

\* the id registerNode returns, -1 for a GroupItem
registerNodeResult(mn, n, uid) ==
    IF dynamicCastGroupItem(n) THEN 0 - 1
    ELSE IF n \in DOMAIN mn THEN mn[n].uid ELSE uid

\* ---------------------------------------------------------------- TagRegistry
\* tag types (the template arguments) and the names typeid gives them
TagTypes == {"Tag1", "Tag2", "Tag3"}
NoIndex == 0 - 1
getTagName(T) == "struct " \o T
TagNames == {getTagName(T) : T \in TagTypes} \cup {"NonExistentTag"}

\* the free-list starting at the last slot
NoTags_Reversed == [index |-> [T \in TagTypes |-> NoIndex],
                    freeList |-> [i \in 1..MaxTags |-> MaxTags - i]]

\* no tag type registered, every slot on the free-list in order
NoTags == [index |-> [T \in TagTypes |-> NoIndex],
           freeList |-> [i \in 1..MaxTags |-> i - 1]]

tagCount(reg) == Cardinality({T \in TagTypes : reg.index[T] # NoIndex})
getTagNameByIndex(reg, i) ==
    IF \E T \in TagTypes : reg.index[T] = i
    THEN getTagName(CHOOSE T \in TagTypes : reg.index[T] = i) ELSE ""

\* getTagIndex handing out the head of the free-list without taking it off
getTagIndex_NoPop(reg, T) ==
    IF reg.index[T] # NoIndex \/ reg.freeList = <<>> THEN reg
    ELSE [reg EXCEPT !.index[T] = Head(reg.freeList)]

\* getTagIndex<T>(): the registry afterwards; a first call takes the head of
\* the free-list, a call on a full registry throws and changes nothing
getTagIndex(reg, T) ==
    IF reg.index[T] # NoIndex \/ reg.freeList = <<>> THEN reg
    ELSE [index |-> [reg.index EXCEPT ![T] = Head(reg.freeList)],
          freeList |-> Tail(reg.freeList)]
\* whether getTagIndex<T>() throws CapacityExceeded
CapacityExceeded(reg, T) == reg.index[T] = NoIndex /\ reg.freeList = <<>>

\* the threads that call into the registry; none holds m_mutex, none is in a call
Threads == {"T1", "T2"}
NoThread == "none"
NoCalls ==
    [lock |-> NoThread,
     pc |-> [t \in Threads |-> "idle"],
     op |-> [t \in Threads |-> "none"],
     arg |-> [t \in Threads |-> NoItem],
     portName |-> [t \in Threads |-> ""],
     fromPort |-> [t \in Threads |-> NoPort],
     toPort |-> [t \in Threads |-> NoPort],
     result |-> [t \in Threads |-> "none"],
     stack |-> [t \in Threads |-> <<>>],
     depth |-> 0]

Init ==
    /\ items = EmptyMap
    /\ ports = EmptyMap
    /\ conns = EmptyMap
    /\ portGen = [n \in Nodes |-> [o \in Orientations |-> 0]]
    /\ groupCount = 0
    /\ connCount = 0
    /\ m_nodes = EmptyMap
    /\ m_groups = EmptyMap
    /\ m_nextNodeId = 1
    /\ m_nextGroupId = 1
    /\ threads = NoCalls
    /\ tagRegistry = NoTags
    /\ tagApplicator = [nameToIndex |-> EmptyMap, indexToApply |-> EmptyMap]
    /\ taggable = {}
    /\ last = Last("init", NoPort, NoPort, NoConn)

\* NodeFactory::createNode -> NodeItem::NodeItem
CreateNode(n) ==
    /\ threads.lock = NoThread
    /\ n \notin DOMAIN items
    /\ n = NodeOrder[Cardinality(NodeIds) + 1]
    /\ items' = MapPut(items, n, NewItem("node", n, {}))
    /\ m_nodes' = registerNode(m_nodes, n, m_nextNodeId)
    /\ m_nextNodeId' = IF n \in DOMAIN m_nodes THEN m_nextNodeId ELSE m_nextNodeId + 1
    /\ last' = Last("createNode", NoPort, NoPort, NoConn)
    /\ UNCHANGED <<threads, tagRegistry, tagApplicator, taggable>>
    /\ UNCHANGED <<ports, conns, portGen, groupCount, connCount, m_groups, m_nextGroupId>>

\* NodeItem::addInput / addOutput / addParameter on node n
addPort(n, ori, widget) ==
    /\ threads.lock = NoThread
    /\ n \in NodeIds
    /\ \A q \in Range(getAllPorts(n)) : getOrientation(q) # ori
    /\ portGen[n][ori] <= MaxGen
    /\ (ori = "Parameter") = (widget \in WidgetKinds \cup ContainerKinds)
    /\ LET p == <<n, ori, "", portGen[n][ori]>>
       IN  /\ ports' = MapPut(ports, p, NewPort(PortNameOf(ori), nodeName(n), widget))
           /\ items' = [items EXCEPT
                  ![n].inputs  = IF ori = "Input" THEN Append(@, p) ELSE @,
                  ![n].outputs = IF ori = "Output" THEN Append(@, p) ELSE @,
                  ![n].params  = IF ori = "Parameter" THEN @ \cup {p} ELSE @]
           /\ m_nodes' = CASE ori = "Input" -> registerInput(m_nodes, n, p)
                           [] ori = "Output" -> registerOutput(m_nodes, n, p)
                           [] ori = "Parameter" -> registerParameter(m_nodes, n, p)
           /\ last' = Last("addPort", NoPort, NoPort, NoConn)
    /\ portGen' = [portGen EXCEPT ![n][ori] = @ + 1]
    /\ UNCHANGED <<threads, tagRegistry, tagApplicator, taggable>>
    /\ UNCHANGED <<conns, groupCount, connCount, m_groups, m_nextNodeId, m_nextGroupId>>

\* the caller gives node n a port of an orientation its shape has
AddPort(n, ori, widget) == ori \in Shape[n] /\ addPort(n, ori, widget)

\* NodeFactory::addInputTag / addOutputTag / addParamTag -> Taggable::addTag
AddTag(p, t) ==
    /\ p \in NodePorts
    /\ t \in Palette[OwnerOf(p)][getOrientation(p)]
    /\ t \notin ports[p].tags
    /\ ports' = [ports EXCEPT ![p].tags = @ \cup {t}]
    /\ last' = Last("addTag", NoPort, NoPort, NoConn)
    /\ UNCHANGED <<threads, tagRegistry, tagApplicator, taggable>>
    /\ UNCHANGED <<items, conns, portGen, groupCount, connCount,
                   m_nodes, m_groups, m_nextNodeId, m_nextGroupId>>

\* NodeItem::removeInput / removeOutput / removeParamInput.  disconnectPorts
\* only drops the Qt signal connections between port and node.  The port
\* object is handed to deleteLater, so it stays in ports and callers that
\* still hold the pointer can read it.
RemovePort(p) ==
    /\ p \in NodePorts
    /\ <<OwnerOf(p), getOrientation(p)>> \in Removable
    /\ LET n == OwnerOf(p)
       IN  /\ items' = [items EXCEPT
                  ![n].inputs  = RemoveOne(@, p),
                  ![n].outputs = RemoveOne(@, p),
                  ![n].params  = @ \ {p}]
           /\ m_nodes' = CASE isInputPort(p) -> unregisterInput(m_nodes, n, p)
                           [] isOutputPort(p) -> unregisterOutput(m_nodes, n, p)
                           [] isParameterPort(p) -> unregisterParameter(m_nodes, n, p)
    /\ last' = Last("removePort", p, NoPort, NoConn)
    /\ UNCHANGED <<threads, tagRegistry, tagApplicator, taggable>>
    /\ UNCHANGED <<ports, conns, portGen, groupCount, connCount,
                   m_groups, m_nextNodeId, m_nextGroupId>>

\* the caller has populated the scene: every node exists and has been given
\* its ports; connections and groups are made in a populated scene
Populated ==
    \A n \in Nodes : n \in DOMAIN items /\ \A o \in Shape[n] : portGen[n][o] >= 1

\* NodeFactory::createConnectionBetweenPorts
createConnectionBetweenPorts(fromPort, toPort) ==
    /\ fromPort \in LivePorts /\ toPort \in LivePorts /\ fromPort # toPort
    /\ IF Connects(fromPort, toPort)
       THEN /\ connCount < MaxConns
            /\ LET c == connCount + 1
                   concreteFrom == ConcreteOf(fromPort)
                   concreteTo == ConcreteOf(toPort)
               IN  /\ conns' = MapPut(conns, c,
                          ConnectionItem(getConnectionPortData(concreteFrom),
                                         getConnectionPortData(concreteTo))
                              @@ [isActive |-> FALSE])
                   /\ m_nodes' = registerConnection(m_nodes, concreteFrom, concreteTo, c)
                   /\ connCount' = c
                   /\ last' = Last("connect", fromPort, toPort, c)
       ELSE /\ UNCHANGED <<conns, m_nodes, connCount>>
            /\ last' = Last("connect", fromPort, toPort, NoConn)
    /\ UNCHANGED <<threads, tagRegistry, tagApplicator, taggable>>
    /\ UNCHANGED <<items, ports, portGen, groupCount, m_groups, m_nextNodeId, m_nextGroupId>>

\* the caller connects two ports of a populated scene
CreateConnectionBetweenPorts(fromPort, toPort) ==
    Populated /\ createConnectionBetweenPorts(fromPort, toPort)

\* GraphScene::deleteConnection: unregisterConnection, then delete
DeleteConnection(c) ==
    /\ c \in DOMAIN conns
    /\ m_nodes' = unregisterConnection(m_nodes, c)
    /\ conns' = MapRemove(conns, c)
    /\ last' = Last("deleteConnection", NoPort, NoPort, c)
    /\ UNCHANGED <<threads, tagRegistry, tagApplicator, taggable>>
    /\ UNCHANGED <<items, ports, portGen, groupCount, connCount,
                   m_groups, m_nextNodeId, m_nextGroupId>>

\* ---------------------------------------------------------------- GroupItem
\* joinedNames over the members sorted by displayed name
RECURSIVE joinedNames(_)
joinedNames(nodes) ==
    IF Len(nodes) = 1 THEN nodeName(Head(nodes))
    ELSE nodeName(Head(nodes)) \o " . " \o joinedNames(Tail(nodes))

RECURSIVE SortedMembers(_, _)
SortedMembers(order, S) ==
    IF order = <<>> THEN <<>>
    ELSE (IF Head(order) \in S THEN <<Head(order)>> ELSE <<>>) \o SortedMembers(Tail(order), S)

buildTitle(S) == joinedNames(SortedMembers(ItemOrder, S))

\* the forward port the group constructs for concrete port p
ForwardPortId(g, p) == <<g, getOrientation(p), OwnerOf(p), p[4]>>
\* the forward port addGroupWidget constructs for the container's own clone
ForwardCloneId(g, p) == <<g, getOrientation(p), OwnerOf(p) \o "/scroll", p[4]>>

\* WidgetVisitor::visit: a widget it clones ends in addGroupWidget, a bare
\* QWidget without children (visitGenericContainer) adds nothing
VisitorAdds(p) == ports[p].widget \in WidgetKinds \cup ContainerKinds

RECURSIVE VisitAll(_)
\* the concrete port of each addGroupWidget call, in call order: a cloned
\* widget makes one call, visitScrollArea one for the inner widget and one
\* for the clone of the scroll area
VisitAll(ps) ==
    IF ps = <<>> THEN <<>>
    ELSE (IF ports[Head(ps)].widget \in ContainerKinds
          THEN <<Head(ps), Head(ps)>> ELSE <<Head(ps)>>) \o VisitAll(Tail(ps))

\* the forward ports constructed for the mirrored concrete ports, in order
ForwardPorts(g, mirrored) ==
    [i \in DOMAIN mirrored |->
        IF i > 1 /\ mirrored[i - 1] = mirrored[i]
        THEN ForwardCloneId(g, mirrored[i]) ELSE ForwardPortId(g, mirrored[i])]

RECURSIVE ConcatOver(_, _)
\* Op(n) concatenated over a sequence of items
InputsOutputsOf(n) == items[n].inputs \o items[n].outputs
ParamsMirroredOf(n) == VisitAll(SeqOfSet({p \in items[n].params : VisitorAdds(p)}))
ParamsOf(n) == SeqOfSet(items[n].params)
ConcatOver(kind, ns) ==
    IF ns = <<>> THEN <<>>
    ELSE (CASE kind = "io" -> InputsOutputsOf(Head(ns))
            [] kind = "mirroredParams" -> ParamsMirroredOf(Head(ns))
            [] kind = "params" -> ParamsOf(Head(ns)))
         \o ConcatOver(kind, Tail(ns))

\* mirrorPorts, then mirrorParams: the concrete ports mirrored, in order
MirroredPorts(S) ==
    ConcatOver("io", SortedMembers(ItemOrder, S))
        \o ConcatOver("mirroredParams", SortedMembers(ItemOrder, S))

registerForward(mg, g, forward, actual) ==
    CASE isInputPort(actual) -> registerForwardInput(mg, g, forward, actual)
      [] isOutputPort(actual) -> registerForwardOutput(mg, g, forward, actual)
      [] isParameterPort(actual) -> registerForwardParameter(mg, g, forward, actual)

RECURSIVE MirrorAll(_, _, _, _)
MirrorAll(mg, g, flist, plist) ==
    IF plist = <<>> THEN mg
    ELSE MirrorAll(registerForward(mg, g, Head(flist), Head(plist)),
                   g, Tail(flist), Tail(plist))

\* GraphRegistry::registerGroup: the group descriptor is added, and the node
\* descriptor the NodeItem constructor had registered for the object is dropped
registerGroupNodes(mn, g) == MapRemove(mn, g)
registerGroupGroups(mg, g, uid) ==
    IF g \in DOMAIN mg THEN mg ELSE MapPut(mg, g, NewGroupDescriptor(g, uid))

SelectSeq2(s, ori) == SelectSeq(s, LAMBDA p : getOrientation(p) = ori)

\* the GroupItem constructor body for group g over the nodes S, entered with
\* node table mn1: registerGroup, setNodeName, mirrorPorts, mirrorParams
GroupItemBody(g, S, mn1) ==
    LET title == buildTitle(S)
        mirrored == MirroredPorts(S)
        fwd == ForwardPorts(g, mirrored)
        mg1 == registerGroupGroups(m_groups, g, m_nextGroupId)
    IN  /\ m_nodes' = registerGroupNodes(mn1, g)
        /\ m_groups' = MirrorAll(mg1, g, fwd, mirrored)
        /\ ports' = [p \in (DOMAIN ports) \cup Range(fwd) |->
               IF p \in Range(fwd)
               THEN LET a == mirrored[CHOOSE i \in DOMAIN fwd : fwd[i] = p]
                    IN  [name |-> moduleName(a) \o "_" \o name(a), module |-> title,
                         tags |-> getTagBitMask(a), widget |-> ports[a].widget]
               ELSE ports[p]]
        /\ items' = [x \in (DOMAIN items) \cup {g} |->
               IF x = g
               THEN [NewItem("group", title, S) EXCEPT
                       !.inputs = SelectSeq2(fwd, "Input"),
                       !.outputs = SelectSeq2(fwd, "Output"),
                       !.params = Range(SelectSeq2(fwd, "Parameter"))]
               ELSE IF x \in S THEN [items[x] EXCEPT !.visible = FALSE]
               ELSE items[x]]
        /\ m_nextGroupId' = m_nextGroupId + 1

\* GraphScene::groupSelectedNodes(S) -> GroupItem::GroupItem
groupSelectedNodes(S) ==
    /\ S # {} /\ S \subseteq DOMAIN items
    /\ LET g == GroupId(groupCount + 1)
       IN  GroupItemBody(g, S, registerNode(m_nodes, g, m_nextNodeId))
    /\ m_nextNodeId' = m_nextNodeId + 1
    /\ groupCount' = groupCount + 1
    /\ last' = Last("createGroup", NoPort, NoPort, NoConn)
    /\ UNCHANGED <<threads, tagRegistry, tagApplicator, taggable>>
    /\ UNCHANGED <<conns, portGen, connCount>>

\* the caller groups a selection of a populated scene
CreateGroup(S) == Populated /\ groupCount < MaxGroups /\ groupSelectedNodes(S)

RECURSIVE UnregisterAll(_, _, _)
UnregisterAll(mg, g, plist) ==
    IF plist = <<>> THEN mg
    ELSE UnregisterAll(unregisterForwardPort(mg, g, Head(plist)), g, Tail(plist))

\* GroupItem::ungroup: the group's own port lists are cleared, the members are
\* shown again, unregisterForwardPort is called with each port of each member,
\* and the group object is left to deleteLater
Ungroup(g) ==
    /\ g \in GroupItems
    /\ ~items[g].pending
    /\ LET members == SortedMembers(ItemOrder, items[g].members \cap DOMAIN items)
           theirs == ConcatOver("io", members) \o ConcatOver("params", members)
       IN  /\ m_groups' = UnregisterAll(m_groups, g, theirs)
           /\ items' = [x \in DOMAIN items |->
                  IF x = g
                  THEN [items[g] EXCEPT !.inputs = <<>>, !.outputs = <<>>, !.params = {},
                                        !.members = {}, !.pending = TRUE]
                  ELSE IF x \in items[g].members THEN [items[x] EXCEPT !.visible = TRUE]
                  ELSE items[x]]
    /\ last' = Last("ungroup", NoPort, NoPort, NoConn)
    /\ UNCHANGED <<threads, tagRegistry, tagApplicator, taggable>>
    /\ UNCHANGED <<ports, conns, portGen, groupCount, connCount,
                   m_nodes, m_nextNodeId, m_nextGroupId>>

unregisterGroup(mg, g) == MapRemove(mg, g)
\* unregisterNode returns early when dynamic_cast<GroupItem*> succeeds; it is
\* applied to nodes, and to a group from ~NodeItem, where the object is no
\* longer a GroupItem
unregisterNode(mn, n) == MapRemove(mn, n)

\* the deferred delete of an ungrouped group: GroupItem::~GroupItem, then
\* NodeItem::~NodeItem; the group's port objects go with it
DeferredDelete(g) ==
    /\ g \in GroupItems
    /\ items[g].pending
    /\ m_groups' = unregisterGroup(m_groups, g)
    /\ m_nodes' = unregisterNode(m_nodes, g)
    /\ items' = MapRemove(items, g)
    /\ ports' = [p \in {q \in DOMAIN ports : OwnerOf(q) # g} |-> ports[p]]
    /\ last' = Last("deleteGroup", NoPort, NoPort, NoConn)
    /\ UNCHANGED <<threads, tagRegistry, tagApplicator, taggable>>
    /\ UNCHANGED <<conns, portGen, groupCount, connCount, m_nextNodeId, m_nextGroupId>>

\* ---------------------------------------------------------------- specification
Next ==
    \/ \E n \in Nodes : CreateNode(n)
    \/ \E n \in Nodes, ori \in Orientations, w \in WidgetKinds \cup {"none"} : AddPort(n, ori, w)
    \/ \E p \in DOMAIN ports, t \in Tags : AddTag(p, t)
    \/ \E p \in DOMAIN ports : RemovePort(p)
    \/ \E a \in DOMAIN ports, b \in DOMAIN ports : CreateConnectionBetweenPorts(a, b)
    \/ \E c \in DOMAIN conns : DeleteConnection(c)
    \/ \E S \in GroupSets : CreateGroup(S)
    \/ \E g \in GroupIds : Ungroup(g)
    \/ \E g \in GroupIds : DeferredDelete(g)

Spec == Init /\ [][Next]_vars

\* ---------------------------------------------------------------- the registry called directly
\* GraphRegistry::unregisterNode on a node that stays alive (GraphRegistryTest)
UnregisterNode(n) ==
    /\ n \in NodeIds
    /\ n \in DOMAIN m_nodes
    /\ m_nodes' = unregisterNode(m_nodes, n)
    /\ last' = LastCall("unregisterNode", n, 0)
    /\ UNCHANGED <<threads, tagRegistry, tagApplicator, taggable>>
    /\ UNCHANGED <<items, ports, conns, portGen, groupCount, connCount,
                   m_groups, m_nextNodeId, m_nextGroupId>>

\* GraphRegistry::registerConnection on a new ConnectionItem of any two ports
RegisterConnection(from, to) ==
    /\ from \in LivePorts /\ to \in LivePorts /\ from # to
    /\ connCount < MaxConns
    /\ LET c == connCount + 1
       IN  /\ conns' = MapPut(conns, c,
                  ConnectionItem(getConnectionPortData(from), getConnectionPortData(to))
                      @@ [isActive |-> FALSE])
           /\ m_nodes' = registerConnection(m_nodes, from, to, c)
           /\ connCount' = c
           /\ last' = Last("registerConnection", from, to, c)
    /\ UNCHANGED <<threads, tagRegistry, tagApplicator, taggable>>
    /\ UNCHANGED <<items, ports, portGen, groupCount, m_groups, m_nextNodeId, m_nextGroupId>>

\* GraphRegistry::registerNode on a live node, registered or not
RegisterNode(n) ==
    /\ n \in DOMAIN items
    /\ m_nextNodeId <= MaxNodeId \/ dynamicCastGroupItem(n)
    /\ m_nodes' = registerNode(m_nodes, n, m_nextNodeId)
    /\ m_nextNodeId' = IF n \in DOMAIN m_nodes \/ dynamicCastGroupItem(n)
                       THEN m_nextNodeId ELSE m_nextNodeId + 1
    /\ last' = LastCall("registerNode", n, registerNodeResult(m_nodes, n, m_nextNodeId))
    /\ UNCHANGED <<threads, tagRegistry, tagApplicator, taggable>>
    /\ UNCHANGED <<items, ports, conns, portGen, groupCount, connCount,
                   m_groups, m_nextGroupId>>

NextRegistry ==
    \/ \E n \in Nodes : CreateNode(n)
    \/ \E n \in Nodes : RegisterNode(n)
    \/ \E n \in Nodes, ori \in Orientations, w \in WidgetKinds \cup {"none"} : AddPort(n, ori, w)
    \/ \E n \in Nodes : UnregisterNode(n)
    \/ \E a \in DOMAIN ports, b \in DOMAIN ports : RegisterConnection(a, b)

SpecRegistry == Init /\ [][NextRegistry]_vars

\* ---------------------------------------------------------------- the registry called from two threads
\* the calls a thread makes, and those that open with QMutexLocker lock(&m_mutex)
RegistryCalls == {"unregisterNode", "findNode", "resolvePort"}
LockingCalls == {"unregisterNode", "findNode"}

\* the ports of descriptor nd that resolvePort's scan accepts, map by map
ScanHits(mp, nm, portName) ==
    {p \in DOMAIN mp : name(p) = portName /\ moduleName(p) = nm}

ResolveIn(nd, nm, portName) ==
    LET i == ScanHits(nd.inputsDescriptor, nm, portName)
        o == ScanHits(nd.outputsDescriptor, nm, portName)
        q == ScanHits(nd.parametersInputsDescriptor, nm, portName)
    IN  IF i # {} THEN CHOOSE p \in i : TRUE
        ELSE IF o # {} THEN CHOOSE p \in o : TRUE
        ELSE IF q # {} THEN CHOOSE p \in q : TRUE
        ELSE NoPort

RECURSIVE ResolveFrom(_, _, _)
ResolveFrom(order, nm, portName) ==
    IF order = <<>> THEN NoPort
    ELSE LET n == Head(order)
             hit == IF n \in DOMAIN m_nodes /\ n \in DOMAIN items /\ nodeName(n) = nm
                    THEN ResolveIn(m_nodes[n], nm, portName) ELSE NoPort
         IN  IF hit # NoPort THEN hit ELSE ResolveFrom(Tail(order), nm, portName)

resolvePort(nm, portName) == ResolveFrom(ItemOrder, nm, portName)

\* a descriptor some thread has deleted and not yet erased from m_nodes
DeletedDescriptors ==
    {threads.arg[u] : u \in {v \in Threads : threads.pc[v] = "deleted"}}

ThreadStep(t, pc, result) ==
    threads' = [threads EXCEPT !.pc[t] = pc, !.result[t] = result]

Quiet == UNCHANGED <<items, ports, conns, portGen, groupCount, connCount,
                     m_groups, m_nextNodeId, m_nextGroupId,
                     tagRegistry, tagApplicator, taggable, last>>

\* a thread enters a registry call
Call(t, op, n, portName) ==
    /\ threads.pc[t] = "idle"
    /\ n \in NodeIds
    /\ (op = "resolvePort") = (portName # "")
    /\ threads' = [threads EXCEPT !.pc[t] = "called", !.op[t] = op, !.arg[t] = n,
                                  !.portName[t] = portName, !.result[t] = "none"]
    /\ UNCHANGED m_nodes /\ Quiet

\* QMutexLocker lock(&m_mutex)
Acquire(t) ==
    /\ threads.pc[t] = "called"
    /\ threads.op[t] \in LockingCalls
    /\ threads.lock = NoThread
    /\ threads' = [threads EXCEPT !.lock = t, !.pc[t] = "locked"]
    /\ UNCHANGED m_nodes /\ Quiet

\* unregisterNode: m_nodes.find(n), then delete it.value()
UnregisterNodeDelete(t) ==
    /\ threads.pc[t] = "locked"
    /\ threads.op[t] = "unregisterNode"
    /\ ThreadStep(t, IF threads.arg[t] \in DOMAIN m_nodes THEN "deleted" ELSE "return", "none")
    /\ UNCHANGED m_nodes /\ Quiet

\* unregisterNode: m_nodes.erase(it)
UnregisterNodeErase(t) ==
    /\ threads.pc[t] = "deleted"
    /\ m_nodes' = unregisterNode(m_nodes, threads.arg[t])
    /\ ThreadStep(t, "return", "none")
    /\ Quiet

\* findNode: the scan of m_nodes, under the lock
FindNodeScan(t) ==
    /\ threads.pc[t] = "locked"
    /\ threads.op[t] = "findNode"
    /\ ThreadStep(t, "return",
                  IF findNode(nodeName(threads.arg[t])) # NoItem THEN "found" ELSE "null")
    /\ UNCHANGED m_nodes /\ Quiet

\* the QMutexLocker goes out of scope
Return(t) ==
    /\ threads.pc[t] = "return"
    /\ threads' = [threads EXCEPT !.lock = NoThread, !.pc[t] = "idle"]
    /\ UNCHANGED m_nodes /\ Quiet

\* resolvePort: the loop over m_nodes starts; no lock is taken
ResolvePortBegin(t) ==
    /\ threads.pc[t] = "called"
    /\ threads.op[t] = "resolvePort"
    /\ ThreadStep(t, "scanning", "none")
    /\ UNCHANGED m_nodes /\ Quiet

\* resolvePort: the loop reads every descriptor in m_nodes and returns; what
\* it returns after reading a deleted descriptor is undefined
ResolvePortEnd(t) ==
    /\ threads.pc[t] = "scanning"
    /\ \E r \in IF DeletedDescriptors # {}
                THEN {"found", "null", "undefined"}
                ELSE {IF resolvePort(nodeName(threads.arg[t]), threads.portName[t]) # NoPort
                      THEN "found" ELSE "null"} :
          ThreadStep(t, "idle", r)
    /\ UNCHANGED m_nodes /\ Quiet

NextThreads ==
    \/ \E n \in Nodes : CreateNode(n)
    \/ \E n \in Nodes, ori \in Orientations, w \in WidgetKinds \cup {"none"} : AddPort(n, ori, w)
    \/ \E t \in Threads, op \in RegistryCalls, n \in Nodes, nm \in {"", "out"} :
          Call(t, op, n, nm)
    \/ \E t \in Threads : Acquire(t)
    \/ \E t \in Threads : UnregisterNodeDelete(t)
    \/ \E t \in Threads : UnregisterNodeErase(t)
    \/ \E t \in Threads : FindNodeScan(t)
    \/ \E t \in Threads : Return(t)
    \/ \E t \in Threads : ResolvePortBegin(t)
    \/ \E t \in Threads : ResolvePortEnd(t)

SpecThreads == Init /\ [][NextThreads]_vars

\* ---------------------------------------------------------------- ports by name
\* NodeItem::addInput(name) / addOutput(name) / addParameter(widget, name):
\* the port is constructed and registered whatever ports the node has
AddNamedPort(n, ori, nm) ==
    /\ n \in NodeIds \cap Probed
    /\ ori \in Shape[n]
    /\ portGen[n]["Input"] + portGen[n]["Output"] + portGen[n]["Parameter"] < MaxNamedPorts
    /\ LET p == <<n, ori, "", portGen[n][ori]>>
       IN  /\ ports' = MapPut(ports, p,
                  NewPort(nm, nodeName(n), IF ori = "Parameter" THEN "leaf" ELSE "none"))
           /\ items' = [items EXCEPT
                  ![n].inputs  = IF ori = "Input" THEN Append(@, p) ELSE @,
                  ![n].outputs = IF ori = "Output" THEN Append(@, p) ELSE @,
                  ![n].params  = IF ori = "Parameter" THEN @ \cup {p} ELSE @]
           /\ m_nodes' = CASE ori = "Input" -> registerInput(m_nodes, n, p)
                           [] ori = "Output" -> registerOutput(m_nodes, n, p)
                           [] ori = "Parameter" -> registerParameter(m_nodes, n, p)
           /\ last' = Last("addPort", p, NoPort, NoConn)
    /\ portGen' = [portGen EXCEPT ![n][ori] = @ + 1]
    /\ UNCHANGED <<threads, tagRegistry, tagApplicator, taggable>>
    /\ UNCHANGED <<conns, groupCount, connCount, m_groups, m_nextNodeId, m_nextGroupId>>

\* GraphRegistry::registerInput / registerOutput / registerParameter called
\* with a port of the node, of any orientation
RegisterPortAs(kind, p) ==
    /\ p \in NodePorts /\ OwnerOf(p) \in Probed
    /\ m_nodes' = CASE kind = "Input" -> registerInput(m_nodes, OwnerOf(p), p)
                     [] kind = "Output" -> registerOutput(m_nodes, OwnerOf(p), p)
                     [] kind = "Parameter" -> registerParameter(m_nodes, OwnerOf(p), p)
    /\ last' = Last("register" \o kind, p, NoPort, NoConn)
    /\ UNCHANGED <<threads, tagRegistry, tagApplicator, taggable>>
    /\ UNCHANGED <<items, ports, conns, portGen, groupCount, connCount,
                   m_groups, m_nextNodeId, m_nextGroupId>>

\* GraphRegistry::unregisterInput / unregisterOutput / unregisterParameter
\* called with a port of the node (GraphRegistryTest); the node keeps the port
UnregisterPortAs(kind, p) ==
    /\ p \in NodePorts /\ OwnerOf(p) \in Probed
    /\ m_nodes' = CASE kind = "Input" -> unregisterInput(m_nodes, OwnerOf(p), p)
                     [] kind = "Output" -> unregisterOutput(m_nodes, OwnerOf(p), p)
                     [] kind = "Parameter" -> unregisterParameter(m_nodes, OwnerOf(p), p)
    /\ last' = Last("unregister" \o kind, p, NoPort, NoConn)
    /\ UNCHANGED <<threads, tagRegistry, tagApplicator, taggable>>
    /\ UNCHANGED <<items, ports, conns, portGen, groupCount, connCount,
                   m_groups, m_nextNodeId, m_nextGroupId>>

\* the registration of a first connection, from an Output port to a port of
\* the node under test
RegisterFirstConnection(from, to) ==
    /\ connCount = 0
    /\ isOutputPort(from) /\ OwnerOf(to) \in Probed
    /\ RegisterConnection(from, to)

NextPorts ==
    \/ \E n \in Nodes : CreateNode(n)
    \/ \E n \in Nodes, ori \in Orientations, w \in WidgetKinds \cup {"none"} : AddPort(n, ori, w)
    \/ \E n \in Nodes, ori \in Orientations, nm \in PortNames : AddNamedPort(n, ori, nm)
    \/ \E kind \in Orientations, p \in DOMAIN ports : RegisterPortAs(kind, p)
    \/ \E kind \in Orientations, p \in DOMAIN ports : UnregisterPortAs(kind, p)
    \/ \E a \in DOMAIN ports, b \in DOMAIN ports : RegisterFirstConnection(a, b)

SpecPorts == Init /\ [][NextPorts]_vars

\* ---------------------------------------------------------------- activation
\* the connections activateNode / deactivateNode visit: getConnections of
\* each port in node->outputs()
ActiveCascade_AllPorts(n) ==
    UNION {Range(getConnections(p)) : p \in Range(getAllPorts(n))}

ActiveCascade(n) ==
    UNION {Range(getConnections(p)) : p \in Range(items[n].outputs)}

isNodeActive(n) == items[n].active

SetActive(n, on) ==
    /\ n \in NodeIds
    /\ items' = [items EXCEPT ![n].active = on]
    /\ conns' = [c \in DOMAIN conns |->
                  IF c \in ActiveCascade(n) THEN [conns[c] EXCEPT !.isActive = on]
                  ELSE conns[c]]
    /\ UNCHANGED <<threads, tagRegistry, tagApplicator, taggable>>
    /\ UNCHANGED <<ports, portGen, groupCount, connCount,
                   m_nodes, m_groups, m_nextNodeId, m_nextGroupId>>

\* GraphRegistry::activateNode
ActivateNode(n) ==
    /\ SetActive(n, TRUE)
    /\ last' = LastCall("activateNode", n, 0)

\* GraphRegistry::deactivateNode
DeactivateNode(n) ==
    /\ SetActive(n, FALSE)
    /\ last' = LastCall("deactivateNode", n, 0)

NextActive ==
    \/ \E n \in Nodes : CreateNode(n)
    \/ \E n \in Nodes, ori \in Orientations, w \in WidgetKinds \cup {"none"} : AddPort(n, ori, w)
    \/ \E a \in DOMAIN ports, b \in DOMAIN ports : RegisterConnection(a, b)
    \/ \E n \in Nodes : ActivateNode(n)
    \/ \E n \in Nodes : DeactivateNode(n)

SpecActive == Init /\ [][NextActive]_vars

\* ---------------------------------------------------------------- forwarding called directly
\* the forwarding table of group descriptor gd that holds ports of orientation ori
ForwardTable(gd, ori) ==
    CASE ori = "Input" -> gd.forwardInputsDescriptor
      [] ori = "Output" -> gd.forwardOutputsDescriptor
      [] ori = "Parameter" -> gd.forwardParametersInputsDescriptor

\* GraphRegistry::registerForwardInput / registerForwardOutput /
\* registerForwardParameter(g, forward, actual) on a port of group g and a
\* concrete port of the same orientation: the table entry and copyTagsFrom
RegisterForward(forward, actual) ==
    /\ forward \in DOMAIN ports /\ OwnerOf(forward) \in GroupItems
    /\ actual \in NodePorts
    /\ getOrientation(actual) = getOrientation(forward)
    /\ LET g == OwnerOf(forward)
       IN  /\ g \in DOMAIN m_groups =>
                 Len(MapGet(ForwardTable(m_groups[g], getOrientation(forward)), forward))
                     < MaxFanOut
           /\ m_groups' = registerForward(m_groups, g, forward, actual)
           /\ ports' = IF lookupGroupUnlocked(g)
                       THEN [ports EXCEPT ![forward].tags = copyTagsFrom(forward, actual)]
                       ELSE ports
    /\ last' = Last("registerForward", forward, actual, NoConn)
    /\ UNCHANGED <<threads, tagRegistry, tagApplicator, taggable>>
    /\ UNCHANGED <<items, conns, portGen, groupCount, connCount,
                   m_nodes, m_nextNodeId, m_nextGroupId>>

\* GraphRegistry::unregisterGroup on a group that stays alive (GraphRegistryTest)
UnregisterGroup(g) ==
    /\ g \in GroupItems
    /\ g \in DOMAIN m_groups
    /\ m_groups' = unregisterGroup(m_groups, g)
    /\ last' = LastCall("unregisterGroup", g, 0)
    /\ UNCHANGED <<threads, tagRegistry, tagApplicator, taggable>>
    /\ UNCHANGED <<items, ports, conns, portGen, groupCount, connCount,
                   m_nodes, m_nextNodeId, m_nextGroupId>>

NextForward ==
    \/ \E n \in Nodes : CreateNode(n)
    \/ \E n \in Nodes, ori \in Orientations, w \in WidgetKinds \cup {"none"} : AddPort(n, ori, w)
    \/ \E p \in DOMAIN ports, t \in Tags : AddTag(p, t)
    \/ \E S \in GroupSets : CreateGroup(S)
    \/ \E f \in DOMAIN ports, a \in DOMAIN ports : RegisterForward(f, a)
    \/ \E g \in GroupIds : UnregisterGroup(g)

SpecForward == Init /\ [][NextForward]_vars

\* ---------------------------------------------------------------- grouping nodes with container widgets
NextWidgets ==
    \/ \E n \in Nodes : CreateNode(n)
    \/ \E n \in Nodes, ori \in Orientations,
          w \in WidgetKinds \cup ContainerKinds \cup {"none"} : AddPort(n, ori, w)
    \/ \E p \in DOMAIN ports, t \in Tags : AddTag(p, t)
    \/ \E S \in GroupSets : CreateGroup(S)
    \/ \E g \in GroupIds : Ungroup(g)
    \/ \E g \in GroupIds : DeferredDelete(g)

SpecWidgets == Init /\ [][NextWidgets]_vars

\* ---------------------------------------------------------------- group construction, step by step
\* the GroupItem objects whose constructor has not called registerGroup yet
Constructing == {g \in GroupItems : ~lookupGroupUnlocked(g)}

\* NodeItem::NodeItem run as the base constructor of a GroupItem over the
\* nodes S: registerNode(this) while the object is not yet a GroupItem
GroupItemBase(S) ==
    /\ Populated
    /\ S # {} /\ S \subseteq NodeIds
    /\ groupCount < MaxGroups
    /\ Constructing = {}
    /\ LET g == GroupId(groupCount + 1)
       IN  /\ m_nodes' = registerNode(m_nodes, g, m_nextNodeId)
           /\ items' = MapPut(items, g, NewItem("group", "Group", S))
           /\ last' = LastCall("NodeItem", g, registerNodeResult(m_nodes, g, m_nextNodeId))
    /\ m_nextNodeId' = m_nextNodeId + 1
    /\ groupCount' = groupCount + 1
    /\ UNCHANGED <<threads, tagRegistry, tagApplicator, taggable>>
    /\ UNCHANGED <<ports, conns, portGen, connCount, m_groups, m_nextGroupId>>

\* the body of GroupItem::GroupItem, entered after the base constructor
GroupItemFinish(g) ==
    /\ g \in Constructing
    /\ GroupItemBody(g, items[g].members, m_nodes)
    /\ last' = Last("createGroup", NoPort, NoPort, NoConn)
    /\ UNCHANGED <<threads, tagRegistry, tagApplicator, taggable>>
    /\ UNCHANGED <<conns, portGen, groupCount, connCount, m_nextNodeId>>

\* the thread that constructs items is inside no constructor
NextGroupCtor ==
    \/ Constructing = {} /\ \E n \in Nodes : CreateNode(n)
    \/ Constructing = {} /\ \E n \in Nodes, ori \in Orientations,
                                w \in WidgetKinds \cup {"none"} : AddPort(n, ori, w)
    \/ Constructing = {} /\ \E p \in DOMAIN ports, t \in Tags : AddTag(p, t)
    \/ \E S \in GroupSets : GroupItemBase(S)
    \/ \E g \in GroupIds : GroupItemFinish(g)
    \/ \E x \in Nodes \cup GroupIds : RegisterNode(x)
    \/ Constructing = {} /\ \E g \in GroupIds : Ungroup(g)
    \/ Constructing = {} /\ \E g \in GroupIds : DeferredDelete(g)

SpecGroupCtor == Init /\ [][NextGroupCtor]_vars

\* ---------------------------------------------------------------- tags: TagRegistry, TagApplicator, Taggable
\* TagRegistry::getTagIndex<T>()
GetTagIndex(T) ==
    /\ tagRegistry' = getTagIndex(tagRegistry, T)
    /\ last' = LastCall("getTagIndex", T, tagRegistry'.index[T])
    /\ UNCHANGED <<tagApplicator, taggable>>
    /\ UNCHANGED <<items, ports, conns, portGen, groupCount, connCount,
                   m_nodes, m_groups, m_nextNodeId, m_nextGroupId, threads>>

\* TagRegistry::unregisterTag<T>(): the index goes back to the free-list, at
\* one of its ends
UnregisterTag(T) ==
    /\ tagRegistry.index[T] # NoIndex
    /\ \E fl \in {<<tagRegistry.index[T]>> \o tagRegistry.freeList,
                   Append(tagRegistry.freeList, tagRegistry.index[T])} :
          tagRegistry' = [index |-> [tagRegistry.index EXCEPT ![T] = NoIndex],
                          freeList |-> fl]
    /\ last' = LastCall("unregisterTag", T, 0)
    /\ UNCHANGED <<tagApplicator, taggable>>
    /\ UNCHANGED <<items, ports, conns, portGen, groupCount, connCount,
                   m_nodes, m_groups, m_nextNodeId, m_nextGroupId, threads>>

\* TagRegistry::unregisterAllTags()
UnregisterAllTags ==
    /\ tagRegistry' = NoTags
    /\ last' = LastCall("unregisterAllTags", NoItem, 0)
    /\ UNCHANGED <<tagApplicator, taggable>>
    /\ UNCHANGED <<items, ports, conns, portGen, groupCount, connCount,
                   m_nodes, m_groups, m_nextNodeId, m_nextGroupId, threads>>

\* TagApplicator::registerTag<T>(): nameToIndex[name] = idx and
\* indexToApply[idx] = the closure that calls addTag<T>; nothing is written
\* when getTagIndex throws
RegisterTag(T) ==
    /\ tagRegistry' = getTagIndex(tagRegistry, T)
    /\ tagApplicator' =
          IF CapacityExceeded(tagRegistry, T) THEN tagApplicator
          ELSE [nameToIndex |-> MapPut(tagApplicator.nameToIndex, getTagName(T),
                                       tagRegistry'.index[T]),
                indexToApply |-> MapPut(tagApplicator.indexToApply,
                                        tagRegistry'.index[T], T)]
    /\ last' = LastCall("registerTag", T, tagRegistry'.index[T])
    /\ UNCHANGED taggable
    /\ UNCHANGED <<items, ports, conns, portGen, groupCount, connCount,
                   m_nodes, m_groups, m_nextNodeId, m_nextGroupId, threads>>

\* TagApplicator::apply(tagName, t): false (0) for a name not in nameToIndex,
\* else indexToApply[idx](t), which is t.addTag<T>() for the T of the closure
\* stored last under idx, and true (1); NoIndex when addTag throws
Apply(tagName) ==
    /\ IF tagName \notin DOMAIN tagApplicator.nameToIndex
       THEN /\ last' = LastCall("apply", tagName, 0)
            /\ UNCHANGED <<tagRegistry, taggable>>
       ELSE LET T == tagApplicator.indexToApply[tagApplicator.nameToIndex[tagName]]
            IN  /\ tagRegistry' = getTagIndex(tagRegistry, T)
                /\ taggable' = IF CapacityExceeded(tagRegistry, T) THEN taggable
                               ELSE taggable \cup {tagRegistry'.index[T]}
                /\ last' = LastCall("apply", tagName,
                                    IF CapacityExceeded(tagRegistry, T) THEN NoIndex ELSE 1)
    /\ UNCHANGED tagApplicator
    /\ UNCHANGED <<items, ports, conns, portGen, groupCount, connCount,
                   m_nodes, m_groups, m_nextNodeId, m_nextGroupId, threads>>

\* Taggable t; a new object without tags
NewTaggable ==
    /\ taggable # {}
    /\ taggable' = {}
    /\ last' = LastCall("Taggable", NoItem, 0)
    /\ UNCHANGED <<tagRegistry, tagApplicator>>
    /\ UNCHANGED <<items, ports, conns, portGen, groupCount, connCount,
                   m_nodes, m_groups, m_nextNodeId, m_nextGroupId, threads>>

NextTags ==
    \/ \E T \in TagTypes : GetTagIndex(T)
    \/ \E T \in TagTypes : UnregisterTag(T)
    \/ UnregisterAllTags
    \/ \E T \in TagTypes : RegisterTag(T)

SpecTags == Init /\ [][NextTags]_vars

\* the applicator's calls, and unregisterAllTags as the only release
NextApplicator ==
    \/ UnregisterAllTags
    \/ \E T \in TagTypes : RegisterTag(T)
    \/ \E nm \in TagNames : Apply(nm)
    \/ NewTaggable

SpecApplicator == Init /\ [][NextApplicator]_vars

\* ---------------------------------------------------------------- createConnectionBetweenPorts on two threads
\* createConnectionBetweenPorts up to the construction of the connection:
\* PortsAreCompatible and hasConnectionTo, each query under m_mutex, which is
\* free again when the query returns; nullptr when a test fails
ConnectCheck(t, fromPort, toPort) ==
    /\ Populated
    /\ threads.pc[t] = "idle" /\ threads.lock = NoThread
    /\ fromPort \in NodePorts /\ toPort \in NodePorts
    /\ isOutputPort(fromPort) /\ isAnyInputPort(toPort)
    /\ threads' = [threads EXCEPT
            !.pc[t] = IF Connects(fromPort, toPort) THEN "checked" ELSE "idle",
            !.op[t] = "createConnectionBetweenPorts",
            !.fromPort[t] = fromPort, !.toPort[t] = toPort,
            !.result[t] = IF Connects(fromPort, toPort) THEN "none" ELSE "null"]
    /\ UNCHANGED m_nodes /\ Quiet

\* the rest of createConnectionBetweenPorts: new ConnectionItem and
\* registerConnection under m_mutex; the connection is returned
ConnectRegister(t) ==
    /\ threads.pc[t] = "checked" /\ threads.lock = NoThread
    /\ connCount < MaxConns
    /\ LET c == connCount + 1
           concreteFrom == ConcreteOf(threads.fromPort[t])
           concreteTo == ConcreteOf(threads.toPort[t])
       IN  /\ conns' = MapPut(conns, c,
                  ConnectionItem(getConnectionPortData(concreteFrom),
                                 getConnectionPortData(concreteTo))
                      @@ [isActive |-> FALSE])
           /\ m_nodes' = registerConnection(m_nodes, concreteFrom, concreteTo, c)
           /\ connCount' = c
           /\ last' = Last("connect", threads.fromPort[t], threads.toPort[t], c)
    /\ threads' = [threads EXCEPT !.pc[t] = "idle", !.result[t] = "connection"]
    /\ UNCHANGED <<tagRegistry, tagApplicator, taggable>>
    /\ UNCHANGED <<items, ports, portGen, groupCount, m_groups, m_nextNodeId, m_nextGroupId>>

NextConnect ==
    \/ \E n \in Nodes : CreateNode(n)
    \/ \E n \in Nodes, ori \in Orientations, w \in WidgetKinds \cup {"none"} : AddPort(n, ori, w)
    \/ \E p \in DOMAIN ports, t \in Tags : AddTag(p, t)
    \/ \E t \in Threads, p \in DOMAIN ports, q \in DOMAIN ports : ConnectCheck(t, p, q)
    \/ \E t \in Threads : ConnectRegister(t)

SpecConnect == Init /\ [][NextConnect]_vars

\* ---------------------------------------------------------------- registerConnection on ports of nodes and groups
NextRegistryGroups ==
    \/ \E n \in Nodes : CreateNode(n)
    \/ \E n \in Nodes, ori \in Orientations, w \in WidgetKinds \cup {"none"} : AddPort(n, ori, w)
    \/ \E S \in GroupSets : CreateGroup(S)
    \/ \E n \in Nodes : UnregisterNode(n)
    \/ \E a \in DOMAIN ports, b \in DOMAIN ports : RegisterConnection(a, b)

SpecRegistryGroups == Init /\ [][NextRegistryGroups]_vars

\* GraphRegistry::groupsOf(n): the groups whose member list holds n's descriptor
groupsOf(n) == {g \in DOMAIN m_groups : n \in Range(m_groups[g].memberNodes)}

\* ---------------------------------------------------------------- groups that share a member
\* a node the caller gives an Input and an Output port, and puts in more
\* than one group
Shared == {"A"}
AddSharedPort(n, ori) == ori \in {"Input", "Output"} /\ addPort(n, ori, "none")
GroupOverlapping(S) == groupCount < MaxOverlap /\ groupSelectedNodes(S)

NextOverlap ==
    \/ \E n \in Shared : CreateNode(n)
    \/ \E n \in Shared, ori \in Orientations : AddSharedPort(n, ori)
    \/ \E p \in DOMAIN ports, t \in Tags : AddTag(p, t)
    \/ \E S \in GroupSets : GroupOverlapping(S)
    \/ \E g \in GroupIds : Ungroup(g)
    \/ \E a \in DOMAIN ports, b \in DOMAIN ports : createConnectionBetweenPorts(a, b)

SpecOverlap == Init /\ [][NextOverlap]_vars

\* ---------------------------------------------------------------- queries, call by call
\* hasConnection and getConnections as the threads run them: one frame per
\* activation of hasConnection, getConnections or getConnectionsFromGroupPort.
\* m_mutex is a QRecursiveMutex: threads.lock is its owner and threads.depth
\* the number of QMutexLocker objects the owner holds.
QueryCalls == {"hasConnection", "getConnections"}
\* the selections grouped here: two nodes, then the group made of them
NestedSets == {{"A", "B"}, {"G1"}}
\* the connections registered here, and the ports queried: the sink, and
\* the forward ports that stand for it
Wiring == {<<"A", "B">>}
Queried == {"Input"}

\* QRecursiveMutex::lock returns when the mutex is free or the caller owns it
CanLock(t) == threads.lock = NoThread \/ threads.lock = t

Frame(fn, port) ==
    [fn |-> fn, port |-> port, phase |-> "enter", todo |-> <<>>, acc |-> <<>>, val |-> FALSE]
Top(t) == threads.stack[t][Len(threads.stack[t])]
SetTop(st, f) == [st EXCEPT ![Len(st)] = f]
InQuery(t) == threads.stack[t] # <<>>
AllIdle == \A t \in Threads : threads.pc[t] = "idle"

\* a thread calls hasConnection(p) or getConnections(p)
CallQuery(t, fn, p) ==
    /\ Populated
    /\ threads.pc[t] = "idle"
    /\ p \in LivePorts /\ getOrientation(p) \in Queried
    /\ threads' = [threads EXCEPT !.pc[t] = "query", !.result[t] = "none",
                                  !.stack[t] = <<Frame(fn, p)>>]
    /\ UNCHANGED m_nodes /\ Quiet

\* hasConnection: getAllForwardedPortsFromAPort(port), which takes m_mutex
\* and releases it on return
HasConnectionForwards(t) ==
    /\ InQuery(t) /\ Top(t).fn = "hasConnection" /\ Top(t).phase = "enter"
    /\ CanLock(t)
    /\ threads' = [threads EXCEPT !.stack[t] = SetTop(@,
           [Top(t) EXCEPT !.phase = "loop",
                          !.todo = getAllForwardedPortsFromAPort(Top(t).port)])]
    /\ UNCHANGED m_nodes /\ Quiet

\* hasConnection: the next hasConnection(p) of the loop, or after the loop
\* getConnections(port)
HasConnectionNext(t) ==
    /\ InQuery(t) /\ Top(t).fn = "hasConnection" /\ Top(t).phase = "loop"
    /\ Len(threads.stack[t]) < MaxDepth
    /\ threads' = [threads EXCEPT !.stack[t] =
           IF Top(t).todo # <<>>
           THEN Append(SetTop(@, [Top(t) EXCEPT !.todo = Tail(@)]),
                       Frame("hasConnection", Head(Top(t).todo)))
           ELSE Append(SetTop(@, [Top(t) EXCEPT !.phase = "wait"]),
                       Frame("getConnections", Top(t).port))]
    /\ UNCHANGED m_nodes /\ Quiet

\* getConnections / getConnectionsFromGroupPort: QMutexLocker lock(&m_mutex)
QueryLock(t) ==
    /\ InQuery(t) /\ Top(t).fn # "hasConnection" /\ Top(t).phase = "enter"
    /\ CanLock(t)
    /\ threads' = [threads EXCEPT !.lock = t, !.depth = @ + 1,
                                  !.stack[t] = SetTop(@, [Top(t) EXCEPT !.phase = "locked"])]
    /\ UNCHANGED m_nodes /\ Quiet

\* getConnections under the lock, handed a port that has been deleted:
\* port->moduleName() reads a destroyed PortLabel.  The behaviour is
\* undefined: the call goes on with what it read and returns, or the read
\* faults and the call never returns
GetConnectionsDangling(t) ==
    /\ InQuery(t) /\ Top(t).fn = "getConnections" /\ Top(t).phase = "locked"
    /\ Top(t).port \notin DOMAIN ports
    /\ \E outcome \in {"done", "fault"} :
          threads' = [threads EXCEPT !.stack[t] = SetTop(@, [Top(t) EXCEPT !.phase = outcome])]
    /\ UNCHANGED m_nodes /\ Quiet

\* getConnections under the lock: findNode, which takes m_mutex again; the
\* lists of the owner's descriptor, or getConnectionsFromGroupPort(port)
GetConnectionsFind(t) ==
    /\ InQuery(t) /\ Top(t).fn = "getConnections" /\ Top(t).phase = "locked"
    /\ Top(t).port \in DOMAIN ports
    /\ CanLock(t)
    /\ LET ownerNode == findNode(moduleName(Top(t).port))
       IN  IF ownerNode = NoItem
           THEN /\ Len(threads.stack[t]) < MaxDepth
                /\ threads' = [threads EXCEPT !.stack[t] =
                       Append(SetTop(@, [Top(t) EXCEPT !.phase = "wait"]),
                              Frame("getConnectionsFromGroupPort", Top(t).port))]
           ELSE threads' = [threads EXCEPT !.stack[t] = SetTop(@,
                       [Top(t) EXCEPT !.phase = "done",
                            !.acc = DescriptorListsOf(m_nodes[ownerNode], Top(t).port)])]
    /\ UNCHANGED m_nodes /\ Quiet

\* getConnectionsFromGroupPort under the lock: the actual ports listed under
\* the forward port in the tables of every group
GroupPortTargets(t) ==
    /\ InQuery(t) /\ Top(t).fn = "getConnectionsFromGroupPort" /\ Top(t).phase = "locked"
    /\ threads' = [threads EXCEPT !.stack[t] = SetTop(@,
           [Top(t) EXCEPT !.phase = "loop",
                          !.todo = ForwardedFrom(Top(t).port, GroupOrder)])]
    /\ UNCHANGED m_nodes /\ Quiet

\* getConnectionsFromGroupPort: getConnections(actual) for the next actual
\* port, or the end of the loops
GroupPortNext(t) ==
    /\ InQuery(t) /\ Top(t).fn = "getConnectionsFromGroupPort" /\ Top(t).phase = "loop"
    /\ IF Top(t).todo # <<>>
       THEN /\ Len(threads.stack[t]) < MaxDepth
            /\ threads' = [threads EXCEPT !.stack[t] =
                   Append(SetTop(@, [Top(t) EXCEPT !.todo = Tail(@)]),
                          Frame("getConnections", Head(Top(t).todo)))]
       ELSE threads' = [threads EXCEPT !.stack[t] = SetTop(@, [Top(t) EXCEPT !.phase = "done"])]
    /\ UNCHANGED m_nodes /\ Quiet

\* what the caller's frame is after the callee returned
Resume(caller, callee) ==
    CASE caller.fn = "hasConnection" /\ callee.fn = "hasConnection" ->
             IF callee.val THEN [caller EXCEPT !.phase = "done", !.val = TRUE] ELSE caller
      [] caller.fn = "hasConnection" /\ callee.fn = "getConnections" ->
             [caller EXCEPT !.phase = "done", !.val = (callee.acc # <<>>)]
      [] caller.fn = "getConnections" ->
             [caller EXCEPT !.phase = "done", !.acc = callee.acc]
      [] caller.fn = "getConnectionsFromGroupPort" ->
             [caller EXCEPT !.acc = @ \o callee.acc]

\* a function returns: its QMutexLocker, if it has one, goes out of scope and
\* the caller goes on with the value
QueryReturn(t) ==
    /\ InQuery(t) /\ Top(t).phase = "done"
    /\ LET st == threads.stack[t]
           callee == Top(t)
           rest == SubSeq(st, 1, Len(st) - 1)
           held == IF callee.fn = "hasConnection" THEN threads.depth ELSE threads.depth - 1
       IN  threads' = [threads EXCEPT
               !.depth = held,
               !.lock = IF held = 0 THEN NoThread ELSE @,
               !.stack[t] = IF rest = <<>> THEN <<>>
                            ELSE SetTop(rest, Resume(rest[Len(rest)], callee)),
               !.pc[t] = IF rest = <<>> THEN "idle" ELSE @,
               !.result[t] = IF rest # <<>> THEN @
                             ELSE IF callee.fn = "hasConnection"
                                  THEN (IF callee.val THEN "true" ELSE "false")
                                  ELSE (IF callee.acc # <<>> THEN "connections" ELSE "empty")]
    /\ UNCHANGED m_nodes /\ Quiet

\* the code a thread runs inside a query
QueryStep(t) ==
    \/ HasConnectionForwards(t)
    \/ HasConnectionNext(t)
    \/ QueryLock(t)
    \/ GetConnectionsFind(t)
    \/ GetConnectionsDangling(t)
    \/ GroupPortTargets(t)
    \/ GroupPortNext(t)
    \/ QueryReturn(t)

\* the scene is edited from the GUI thread while no query runs
GroupNested(S) == AllIdle /\ Populated /\ groupCount < MaxOverlap /\ groupSelectedNodes(S)
UngroupNested(g) == AllIdle /\ Ungroup(g)
DeleteNested(g) == AllIdle /\ DeferredDelete(g)
Wire(from, to) ==
    /\ AllIdle
    /\ <<OwnerOf(from), OwnerOf(to)>> \in Wiring
    /\ isOutputPort(from) /\ isInputPort(to)
    /\ RegisterConnection(from, to)

NextQueries ==
    \/ \E n \in Nodes : CreateNode(n)
    \/ \E n \in Nodes, ori \in Orientations, w \in WidgetKinds \cup {"none"} : AddPort(n, ori, w)
    \/ \E S \in NestedSets : GroupNested(S)
    \/ \E g \in GroupIds : UngroupNested(g)
    \/ \E g \in GroupIds : DeleteNested(g)
    \/ \E a \in DOMAIN ports, b \in DOMAIN ports : Wire(a, b)
    \/ \E t \in Threads, fn \in QueryCalls, p \in DOMAIN ports : CallQuery(t, fn, p)
    \/ \E t \in Threads : QueryStep(t)

SpecQueries == Init /\ [][NextQueries]_vars

\* a running thread executes its next step, and a thread waiting in
\* QRecursiveMutex::lock gets the mutex once it is released to it
SpecQueriesFair == SpecQueries /\ \A t \in Threads : SF_vars(QueryStep(t))

\* ---------------------------------------------------------------- properties
\* what keeps two ports apart other than the state of the sink: both shown,
\* different owners, opposite directions, equal non-empty tag sets
Matching(a, b) ==
    /\ isVisible(a) /\ isVisible(b)
    /\ OwnerOf(a) # OwnerOf(b)
    /\ isAnyInputPort(a) # isAnyInputPort(b)
    /\ getTagBitMask(a) # {} /\ getTagBitMask(a) = getTagBitMask(b)

\* C1: sinks are single-assignment.  Every live Input or Parameter port,
\* concrete or forward, has at most one connection; and when a sink p has a
\* connection, createConnectionBetweenPorts on p and any Output port q, in
\* either argument order, returns no connection and leaves getConnections(p)
\* as it was.
C1_SinkSingleAssignment ==
    /\ [](\A p \in LivePorts : isAnyInputPort(p) => Len(getConnections(p)) <= 1)
    /\ [][\A p \in {last'.a, last'.b}, q \in {last'.a, last'.b} :
            (/\ last'.op = "connect"
             /\ isAnyInputPort(p) /\ isOutputPort(q) /\ hasConnection(p))
            => (last'.c = NoConn /\ getConnections(p)' = getConnections(p))]_vars

\* a refused attempt on a sink that holds one connection, made with an Output
\* port that matches the sink in everything else
C1_Witness ==
    /\ last.op = "connect" /\ last.c = NoConn
    /\ \E p \in {last.a, last.b}, q \in {last.a, last.b} :
          /\ isAnyInputPort(p) /\ isOutputPort(q)
          /\ Matching(p, q)
          /\ Len(getConnections(p)) = 1
          /\ conns[getConnections(p)[1]].outputPort.moduleName # moduleName(q)

\* the two tag sets are not both non-empty and equal
TagsDiffer(a, b) ==
    getTagBitMask(a) = {} \/ getTagBitMask(b) = {} \/ getTagBitMask(a) # getTagBitMask(b)

\* C2 (as stated): createConnectionBetweenPorts(a, b) creates a connection only
\* if both tag sets are non-empty and equal, and after an attempt on ports
\* whose tag sets are empty or differ hasConnectionTo(a, b) is false.
C2_TagEqualityAsStated ==
    (last.op = "connect" /\ TagsDiffer(last.a, last.b))
        => (last.c = NoConn /\ ~hasConnectionTo(last.a, last.b))

\* C2 (amended): createConnectionBetweenPorts(a, b) creates a connection only
\* if both tag sets are non-empty and equal; an attempt on ports whose tag sets
\* are empty or differ returns no connection and changes nothing in the
\* registry, so hasConnectionTo(a, b) is afterwards what it was before: false
\* unless a connection made earlier, while the tag sets were equal, joins them.
C2_TagEquality ==
    [][\A a \in {last'.a}, b \in {last'.b} :
          last'.op = "connect"
          => /\ last'.c # NoConn =>
                  (getTagBitMask(a) # {} /\ getTagBitMask(a) = getTagBitMask(b))
             /\ TagsDiffer(a, b) =>
                  /\ last'.c = NoConn
                  /\ m_nodes' = m_nodes /\ conns' = conns
                  /\ hasConnectionTo(a, b)' => hasConnectionTo(a, b)]_vars

\* a refused attempt on two free ports that match in everything but their tag
\* sets, one of which is a strict subset of the other
C2_Witness ==
    /\ last.op = "connect" /\ last.c = NoConn
    /\ isVisible(last.a) /\ isVisible(last.b)
    /\ OwnerOf(last.a) # OwnerOf(last.b)
    /\ isAnyInputPort(last.a) # isAnyInputPort(last.b)
    /\ getTagBitMask(last.a) # {} /\ getTagBitMask(last.b) # {}
    /\ getTagBitMask(last.b) \subseteq getTagBitMask(last.a)
    /\ getTagBitMask(last.a) # getTagBitMask(last.b)
    /\ ~hasConnection(last.a) /\ ~hasConnection(last.b)

\* every connection some list of some node descriptor holds
RegisteredConnections(mn) ==
    UNION {UNION {Range(mn[n].inputsDescriptor[p]) : p \in DOMAIN mn[n].inputsDescriptor}
           \cup UNION {Range(mn[n].outputsDescriptor[p]) : p \in DOMAIN mn[n].outputsDescriptor}
           \cup UNION {Range(mn[n].parametersInputsDescriptor[p]) :
                          p \in DOMAIN mn[n].parametersInputsDescriptor}
           : n \in DOMAIN mn}

\* the ports a node descriptor has registered
RegisteredPorts(nd) ==
    <<DOMAIN nd.inputsDescriptor, DOMAIN nd.outputsDescriptor,
      DOMAIN nd.parametersInputsDescriptor>>

\* C11: registerNode is idempotent.  A call on a node that is registered
\* returns the id its descriptor holds, changes no descriptor (so allNodes()
\* and every port and connection map are as before) and consumes no id; and
\* two calls in a row on the same node return the same id.
C11_RegisterNodeIdempotent ==
    [][\A n \in {last'.item} : last'.op = "registerNode" =>
          /\ n \in DOMAIN m_nodes =>
                /\ last'.ret = m_nodes[n].uid
                /\ m_nodes' = m_nodes
                /\ m_nextNodeId' = m_nextNodeId
          /\ (last.op = "registerNode" /\ last.item = n) => last'.ret = last.ret]_vars

\* registerNode has returned an id that is not the newest one, so the call
\* was on a node already registered; the node has ports and a connection exists
C11_Witness ==
    /\ last.op = "registerNode"
    /\ last.item \in DOMAIN m_nodes
    /\ last.ret = m_nodes[last.item].uid
    /\ last.ret < m_nextNodeId - 1
    /\ RegisteredPorts(m_nodes[last.item]) # <<{}, {}, {}>>
    /\ RegisteredConnections(m_nodes) # {}

\* C12: node ids are unique, monotonic and stable.  No two registered nodes
\* share an id and every id in the table is below the counter; the counter
\* never goes back; a node that stays registered keeps its id; and a node
\* that becomes registered gets an id at or above the old counter, hence
\* above every id handed out before, released or not.
C12_NodeIdsUniqueMonotonicStable ==
    /\ [](\A n \in DOMAIN m_nodes :
            /\ m_nodes[n].uid < m_nextNodeId
            /\ \A m \in DOMAIN m_nodes : m # n => m_nodes[m].uid # m_nodes[n].uid)
    /\ [][/\ m_nextNodeId' >= m_nextNodeId
          /\ \A n \in DOMAIN m_nodes' :
                IF n \in DOMAIN m_nodes
                THEN m_nodes'[n].uid = m_nodes[n].uid
                ELSE m_nodes'[n].uid >= m_nextNodeId]_vars

\* a node has been unregistered and registered again beside two nodes that
\* kept their ids, and has the newest id
C12_Witness ==
    /\ DOMAIN m_nodes = Nodes
    /\ last.op = "registerNode"
    /\ last.ret = Cardinality(Nodes) + 1
    /\ m_nodes[last.item].uid = last.ret

\* C13: the compatibility check is symmetric.  For all ports p and q, in
\* every state, PortsAreCompatible(p, q) = PortsAreCompatible(q, p), and
\* createConnectionBetweenPorts(p, q) makes a connection exactly when
\* createConnectionBetweenPorts(q, p) would.
C13_CompatibilitySymmetric ==
    \A p \in LivePorts, q \in LivePorts :
        /\ PortsAreCompatible(p, q) = PortsAreCompatible(q, p)
        /\ Connects(p, q) = Connects(q, p)

\* a connection has been made with the sink passed first, while another
\* source is refused at the occupied sink and a compatible pair remains
C13_Witness ==
    /\ last.op = "connect" /\ last.c # NoConn
    /\ isAnyInputPort(last.a) /\ isOutputPort(last.b)
    /\ \E q \in LivePorts :
          /\ q # last.b /\ isOutputPort(q) /\ OwnerOf(q) # OwnerOf(last.a)
          /\ haveSameTags(q, last.a)
          /\ ~PortsAreCompatible(q, last.a)
    /\ \E p \in LivePorts, q \in LivePorts : PortsAreCompatible(p, q)

\* C14: registerInput, registerOutput and registerParameter called with a
\* port whose orientation does not match the operation leave every
\* descriptor map as it was.
C14_RegisterPortRejectsMismatch ==
    [][\A p \in {last'.a} :
          (/\ last'.op \in {"registerInput", "registerOutput", "registerParameter"}
           /\ last'.op # "register" \o getOrientation(p))
          => m_nodes' = m_nodes]_vars

\* registerOutput has been called with an Input port that is registered and
\* holds a connection
C14_Witness ==
    /\ last.op = "registerOutput"
    /\ isInputPort(last.a)
    /\ last.a \in DOMAIN m_nodes[OwnerOf(last.a)].inputsDescriptor
    /\ getConnections(last.a) # <<>>

\* C17: port names are unique within an owner and orientation: no item has
\* two ports of the same orientation with the same name.
C17_PortNamesUnique ==
    \A n \in DOMAIN items : \A p \in Range(getAllPorts(n)), q \in Range(getAllPorts(n)) :
        (p # q /\ getOrientation(p) = getOrientation(q)) => name(p) # name(q)

\* port p is a key of a map of the descriptor of node n
RegisteredOn(mn, n, p) ==
    /\ n \in DOMAIN mn
    /\ p \in (DOMAIN mn[n].inputsDescriptor) \cup (DOMAIN mn[n].outputsDescriptor)
              \cup (DOMAIN mn[n].parametersInputsDescriptor)

\* C19: resolvePort(nodeName, portName) returns a port only if the port is
\* registered on a registered node of that name and has exactly that name;
\* and after unregisterInput / unregisterOutput / unregisterParameter(n, p),
\* whatever connections p had, resolvePort(n.name, p.name) is absent (stated
\* here for a port p whose name no other registered port of n carries).
C19_ResolvePort ==
    /\ [](\A nm \in Nodes, pn \in PortNames \cup {"out", "par"} :
            \A r \in {resolvePort(nm, pn)} :
                r # NoPort =>
                    /\ name(r) = pn
                    /\ \E n \in DOMAIN m_nodes :
                          n \in DOMAIN items /\ nodeName(n) = nm /\ RegisteredOn(m_nodes, n, r))
    /\ [][\A p \in {last'.a} :
            (/\ last'.op = "unregister" \o getOrientation(p)
             /\ \A q \in DOMAIN ports :
                   (q # p /\ RegisteredOn(m_nodes, OwnerOf(p), q)) => name(q) # name(p))
            => resolvePort(moduleName(p), name(p))' = NoPort]_vars

\* connection c is in a list keyed by port p in some node descriptor
AttachedTo(mn, c, p) ==
    \E n \in DOMAIN mn : c \in Range(DescriptorListsOf(mn[n], p))

\* C18: activateNode(n) makes isNodeActive(n) true and sets the active flag
\* of every connection attached to an Output port of n; deactivateNode(n)
\* makes it false and clears the flag on the same connections.  Both leave
\* the flag of every other connection, the active flag of every other node
\* and all descriptor maps as they were.
C18_ActivationCascades ==
    [][\A n \in {last'.item} : last'.op \in {"activateNode", "deactivateNode"} =>
          LET on == (last'.op = "activateNode")
              out == {c \in DOMAIN conns :
                        \E p \in Range(items[n].outputs) : AttachedTo(m_nodes, c, p)}
          IN  /\ isNodeActive(n)' = on
              /\ \A c \in out : conns'[c].isActive = on
              /\ \A c \in (DOMAIN conns) \ out : conns'[c].isActive = conns[c].isActive
              /\ \A m \in NodeIds \ {n} : isNodeActive(m)' = isNodeActive(m)
              /\ m_nodes' = m_nodes /\ m_groups' = m_groups]_vars

\* a node has been deactivated whose Input port holds a connection that the
\* activation of the node at the other end had switched on: it is still on
C18_Witness ==
    /\ last.op = "deactivateNode"
    /\ ~isNodeActive(last.item)
    /\ \E d \in DOMAIN conns :
          /\ \E p \in Range(items[last.item].inputs) : AttachedTo(m_nodes, d, p)
          /\ ~ \E p \in Range(items[last.item].outputs) : AttachedTo(m_nodes, d, p)
          /\ conns[d].isActive
          /\ \E m \in NodeIds \ {last.item} :
                /\ isNodeActive(m)
                /\ \E p \in Range(items[m].outputs) : AttachedTo(m_nodes, d, p)

\* C3: removing a port p from its node removes every connection that was
\* attached to p from the registry on both sides: afterwards no connection
\* list of any node descriptor holds such a connection.
C3_PortRemovalRemovesConnections ==
    [][\A p \in {last'.a} :
          (last'.op = "removePort" /\ OwnerOf(p) \in DOMAIN m_nodes)
          => Range(DescriptorListsOf(m_nodes[OwnerOf(p)], p))
                 \cap RegisteredConnections(m_nodes') = {}]_vars

\* the ports whose lists hold connection c: its sinks and its sources
SinksOf(mn, c) ==
    UNION {{p \in DOMAIN mn[n].inputsDescriptor : c \in Range(mn[n].inputsDescriptor[p])}
           : n \in DOMAIN mn}
SourcesOf(mn, c) ==
    UNION {{p \in DOMAIN mn[n].outputsDescriptor : c \in Range(mn[n].outputsDescriptor[p])}
           : n \in DOMAIN mn}

\* C8: after unregisterConnection(c) no connection list of any port in any
\* node descriptor holds c, hasConnectionTo is false for the ports c joined
\* and getConnections of either no longer returns c; the registered nodes and
\* ports and every other connection in every list are as they were.
C8_UnregisterConnection ==
    [][\A c \in {last'.c} :
          last'.op = "deleteConnection"
          => /\ c \notin RegisteredConnections(m_nodes')
             /\ \A i \in SinksOf(m_nodes, c), o \in SourcesOf(m_nodes, c) :
                   /\ ~hasConnectionTo(o, i)' /\ ~hasConnectionTo(i, o)'
                   /\ c \notin Range(getConnections(i)')
                   /\ c \notin Range(getConnections(o)')
             /\ DOMAIN m_nodes' = DOMAIN m_nodes
             /\ \A n \in DOMAIN m_nodes :
                   /\ RegisteredPorts(m_nodes'[n]) = RegisteredPorts(m_nodes[n])
                   /\ \A p \in DOMAIN ports :
                         DescriptorListsOf(m_nodes'[n], p)
                             = RemoveAll(DescriptorListsOf(m_nodes[n], p), c)]_vars

\* a connection has just been unregistered that both of its ports had listed,
\* and another connection is still registered
C8_Witness ==
    /\ last.op = "deleteConnection"
    /\ last.c \notin RegisteredConnections(m_nodes)
    /\ RegisteredConnections(m_nodes) # {}
    /\ \E i \in NodePorts, o \in NodePorts :
          /\ isAnyInputPort(i) /\ isOutputPort(o)
          /\ Matching(i, o) /\ ~hasConnectionTo(o, i)
          /\ getConnections(o) # <<>>

\* the forward ports of group g
ForwardPortsOf(g) == Range(getAllPorts(g))

\* C4: group then ungroup is a round trip on the registry.  Neither step
\* changes a connection list of a node descriptor, so hasConnectionTo(A.o, B.i)
\* is as before grouping, and after ungroup getAllForwardedPortsFromAPort(f)
\* is empty for every port f that was a forward port of the group.
C4_GroupUngroupRoundTrip ==
    [][/\ last'.op \in {"createGroup", "ungroup"} =>
             /\ m_nodes' = m_nodes
             /\ \A o \in NodePorts, i \in NodePorts :
                   hasConnectionTo(o, i)' = hasConnectionTo(o, i)
       /\ \A g \in GroupItems :
             (last'.op = "ungroup" /\ ~items[g].pending /\ items'[g].pending) =>
                 \A f \in ForwardPortsOf(g) : getAllForwardedPortsFromAPort(f)' = <<>>]_vars

\* C5: whenever createConnectionBetweenPorts(from, to) returns a connection,
\* the connection is in a list of its source port and in a list of its sink
\* port, and hasConnectionTo(from, to) is true for the two ports passed in,
\* forward ports included.
C5_ReturnedConnectionIsRegistered ==
    (last.op = "connect" /\ last.c # NoConn)
        => /\ SourcesOf(m_nodes, last.c) # {}
           /\ SinksOf(m_nodes, last.c) # {}
           /\ hasConnectionTo(last.a, last.b)

\* the connections of the concrete ports behind forward port f, aggregated
AggregatedConnections(f) == ConnectionsOfAll(getAllForwardedPortsFromAPort(f))

\* C6: for every forward port f of every registered group, hasConnection(f)
\* is true exactly if a concrete port behind f has a connection, and
\* getConnections(f) returns the connections of those concrete ports,
\* aggregated over all of them.
C6_ForwardPortAggregates ==
    \A g \in GroupItems : \A f \in ForwardPortsOf(g) :
        /\ hasConnection(f) <=> (AggregatedConnections(f) # <<>>)
        /\ getConnections(f) = AggregatedConnections(f)

\* every concrete port some forward port of some group descriptor targets
ForwardTargets ==
    UNION {UNION {Range(m_groups[g].forwardInputsDescriptor[f]) :
                     f \in DOMAIN m_groups[g].forwardInputsDescriptor}
           \cup UNION {Range(m_groups[g].forwardOutputsDescriptor[f]) :
                          f \in DOMAIN m_groups[g].forwardOutputsDescriptor}
           \cup UNION {Range(m_groups[g].forwardParametersInputsDescriptor[f]) :
                          f \in DOMAIN m_groups[g].forwardParametersInputsDescriptor}
           : g \in DOMAIN m_groups}

\* C9: when a concrete port p that some forward port targets is removed from
\* its node, every forwarding entry that references p is gone after the
\* step: getAllPortsForwardedToAPort(p) is empty and p is in no target list.
C9_PortRemovalRemovesForwarding ==
    (last.op = "removePort")
        => (getAllPortsForwardedToAPort(last.a) = {} /\ last.a \notin ForwardTargets)

\* C7: registerConnection(from, to, c) changes no descriptor map and no
\* connection list when the two ports are both inputs or parameters, or both
\* outputs, or when the owner of either resolves to no registered node or group.
C7_RegisterConnectionRejects ==
    [][\A a \in {last'.a}, b \in {last'.b} :
          (/\ last'.op = "registerConnection"
           /\ \/ isAnyInputPort(a) = isAnyInputPort(b)
              \/ OwnerByName(a) = NoItem
              \/ OwnerByName(b) = NoItem)
          => m_nodes' = m_nodes]_vars

\* C10: every registry operation runs under m_mutex for its whole duration:
\* a thread inside an operation holds the lock, no thread scans m_nodes while
\* another has deleted a descriptor it has not yet erased, and no call
\* returns a result read from a deleted descriptor.
C10_OperationsRunUnderLock ==
    /\ \A t \in Threads :
          threads.pc[t] \in {"locked", "deleted", "return", "scanning"} => threads.lock = t
    /\ \A t \in Threads : threads.pc[t] = "scanning" => DeletedDescriptors = {}
    /\ \A t \in Threads : threads.result[t] # "undefined"


\* C15: registerForwardInput / registerForwardOutput / registerForwardParameter
\* (g, forward, actual) on a registered group appends actual to the list kept
\* under forward in the table of that orientation and leaves forward with
\* exactly the tags of actual, whatever it carried and whatever was registered
\* under it before; nothing else in the registry and no other port's tags
\* change.  On a group that is not registered the call changes nothing.
C15_RegisterForwardCopiesTags ==
    [][last'.op = "registerForward" =>
        \A f \in {last'.a} : \A a \in {last'.b} : \A g \in {OwnerOf(last'.a)} :
            IF g \in DOMAIN m_groups
            THEN /\ DOMAIN m_groups' = DOMAIN m_groups
                 /\ \A ori \in Orientations :
                      LET old == ForwardTable(m_groups[g], ori)
                          new == ForwardTable(m_groups'[g], ori)
                      IN  IF ori = getOrientation(f)
                          THEN /\ DOMAIN new = DOMAIN old \cup {f}
                               /\ new[f] = Append(MapGet(old, f), a)
                               /\ \A k \in DOMAIN old \ {f} : new[k] = old[k]
                          ELSE new = old
                 /\ m_groups'[g].uid = m_groups[g].uid
                 /\ m_groups'[g].memberNodes = m_groups[g].memberNodes
                 /\ ports'[f].tags = ports[a].tags
                 /\ \A q \in DOMAIN ports \ {f} : ports'[q] = ports[q]
                 /\ DOMAIN ports' = DOMAIN ports
            ELSE m_groups' = m_groups /\ ports' = ports]_vars

\* a forward port that had two concrete ports registered under it and carries
\* the tags of the second, which are neither the union nor the intersection
\* of the two tag sets
C15_Witness ==
    /\ last.op = "registerForward"
    /\ OwnerOf(last.a) \in DOMAIN m_groups
    /\ LET lst == MapGet(ForwardTable(m_groups[OwnerOf(last.a)], getOrientation(last.a)), last.a)
       IN  /\ Len(lst) = 2
           /\ lst[2] = last.b
           /\ lst[1] # lst[2]
           /\ ports[last.a].tags = ports[lst[2]].tags
           /\ ports[last.a].tags # ports[lst[1]].tags \cup ports[lst[2]].tags
           /\ ports[last.a].tags # ports[lst[1]].tags \cap ports[lst[2]].tags


\* C16: in each forwarding table (inputs, outputs, parameters) of each
\* registered group, a concrete port is in the target list of at most one
\* forward port, and at most once in that list.
C16_OneForwardPerConcrete ==
    \A g \in DOMAIN m_groups : \A ori \in Orientations :
        LET tab == ForwardTable(m_groups[g], ori)
        IN  /\ \A f1, f2 \in DOMAIN tab :
                 f1 # f2 => Range(tab[f1]) \cap Range(tab[f2]) = {}
            /\ \A f \in DOMAIN tab : \A i, j \in DOMAIN tab[f] :
                 tab[f][i] = tab[f][j] => i = j


\* C20: a Group is never registered as a plain Node.  registerNode on a Group
\* returns -1 and leaves the node table unchanged; and in every state, those
\* during group creation included, no Group is in the node table (allNodes)
\* and no entity has both a Node descriptor and a Group descriptor.
C20_GroupNeverNode ==
    /\ [](/\ \A g \in GroupItems : g \notin DOMAIN m_nodes
          /\ DOMAIN m_nodes \cap DOMAIN m_groups = {})
    /\ [][\A n \in {last'.item} :
            (last'.op = "registerNode" /\ n \in GroupItems) =>
                /\ last'.ret = 0 - 1
                /\ m_nodes' = m_nodes
                /\ m_nextNodeId' = m_nextNodeId]_vars


\* C21: tag index assignment is injective and idempotent.  Two distinct
\* registered tag types never have the same index, every index is in
\* [0, MaxTags), and getTagIndex on a tag type that is registered returns
\* the index it has and changes neither tagCount() nor anything else in the
\* registry.
C21_TagIndexInjectiveIdempotent ==
    /\ [](\A T \in TagTypes :
            tagRegistry.index[T] # NoIndex =>
                /\ tagRegistry.index[T] \in 0..(MaxTags - 1)
                /\ \A U \in TagTypes \ {T} : tagRegistry.index[U] # tagRegistry.index[T])
    /\ [][\A T \in {last'.item} :
            (last'.op = "getTagIndex" /\ tagRegistry.index[T] # NoIndex) =>
                /\ last'.ret = tagRegistry.index[T]
                /\ tagCount(tagRegistry') = tagCount(tagRegistry)
                /\ tagRegistry' = tagRegistry]_vars

\* getTagIndex has returned the index of a tag type that was registered, in
\* a full registry where the third tag type holds slot 0 and the first slot 1
C21_Witness ==
    /\ last.op = "getTagIndex"
    /\ last.ret = tagRegistry.index[last.item]
    /\ tagCount(tagRegistry) = MaxTags
    /\ tagRegistry.index["Tag3"] = 0
    /\ tagRegistry.index["Tag1"] = 1

\* C22: unregisterAllTags() leaves tagCount() at 0 and getTagNameByIndex
\* empty for every index, and the tag type registered next, whichever it
\* is, gets index 0.
C22_UnregisterAllResets ==
    [][/\ last'.op = "unregisterAllTags" =>
            /\ tagCount(tagRegistry') = 0
            /\ \A i \in 0..(MaxTags - 1) : getTagNameByIndex(tagRegistry', i) = ""
            /\ \A T \in TagTypes : getTagIndex(tagRegistry', T).index[T] = 0
       /\ (last.op = "unregisterAllTags" /\ last'.op \in {"getTagIndex", "registerTag"}) =>
            last'.ret = 0]_vars

\* unregisterAllTags has emptied a registry whose indices had all been in
\* use: the applicator still has them under the names registered through it
C22_Witness ==
    /\ last.op = "unregisterAllTags"
    /\ tagCount(tagRegistry) = 0
    /\ Cardinality(DOMAIN tagApplicator.indexToApply) = MaxTags

\* C23: apply(name, t) returns false and leaves t unchanged when no tag was
\* registered through the applicator under that name; otherwise it returns
\* true and adds to t the bit of the tag type whose name it is, and no other
\* bit.  Applying a name again changes nothing more.
C23_ApplyAddsNamedTag ==
    [][\A nm \in {last'.item} : last'.op = "apply" =>
          IF nm \notin DOMAIN tagApplicator.nameToIndex
          THEN last'.ret = 0 /\ taggable' = taggable
          ELSE \A T \in TagTypes : getTagName(T) = nm =>
                  /\ last'.ret = 1
                  /\ tagRegistry'.index[T] # NoIndex
                  /\ taggable' = taggable \cup {tagRegistry'.index[T]}
                  /\ (last.op = "apply" /\ last.item = nm) => taggable' = taggable]_vars


\* C24: sink single-assignment under concurrent callers.  When both threads
\* have been in createConnectionBetweenPorts with different Output ports
\* and the same sink port, at most one of the calls has returned a
\* connection, and the sink holds at most one connection.
C24_ConcurrentSinkSingleAssignment ==
    \A t \in Threads : \A u \in Threads \ {t} :
        (/\ threads.op[t] = "createConnectionBetweenPorts"
         /\ threads.op[u] = "createConnectionBetweenPorts"
         /\ threads.pc[t] = "idle" /\ threads.pc[u] = "idle"
         /\ threads.toPort[t] = threads.toPort[u]
         /\ threads.fromPort[t] # threads.fromPort[u])
        => /\ ~(threads.result[t] = "connection" /\ threads.result[u] = "connection")
           /\ Len(getConnections(threads.toPort[t])) <= 1


\* C25: registerConnection is all-or-nothing.  After registerConnection(from,
\* to, c), whatever the ports and their owners, c is in a connection list
\* kept under from exactly if it is in one kept under to.
C25_RegisterConnectionAllOrNothing ==
    [][\A a \in {last'.a} : \A b \in {last'.b} : \A c \in {last'.c} :
          last'.op = "registerConnection" =>
              (AttachedTo(m_nodes', c, a) <=> AttachedTo(m_nodes', c, b))]_vars

\* the connections kept in some list of some descriptor of node table mn
ListedConnections(mn) ==
    UNION {Range(DescriptorListsOf(mn[m], p)) : m \in DOMAIN mn, p \in DOMAIN ports}
\* connection c has an end on a port of the item named nm
EndsOn(c, nm) ==
    conns[c].inputPort.moduleName = nm \/ conns[c].outputPort.moduleName = nm

\* C26: the registry holds no reference to an unregistered node.  After
\* unregisterNode(n), no connection list of a remaining descriptor holds a
\* connection with an end on n, no group descriptor's member list holds n,
\* and no forwarding table lists a port of n as a concrete target.
C26_NoReferenceToUnregistered ==
    [][\A n \in {last'.item} : last'.op = "unregisterNode" =>
          /\ \A c \in ListedConnections(m_nodes') : ~EndsOn(c, nodeName(n))
          /\ \A g \in DOMAIN m_groups' : n \notin Range(m_groups'[g].memberNodes)
          /\ \A q \in ForwardTargets' : OwnerOf(q) # n]_vars

\* C27: no self-loops.  After any sequence of node and port creation,
\* grouping (a node may be in several groups), ungrouping and
\* createConnectionBetweenPorts calls, no registered connection has its
\* concrete source port and its concrete sink port owned by the same node,
\* connections requested between forward ports included.
C27_NoSelfLoops ==
    \A c \in ListedConnections(m_nodes) :
        c \in DOMAIN conns => conns[c].outputPort.moduleName # conns[c].inputPort.moduleName

\* C28: each node descriptor's three port maps stay partitioned by
\* orientation.  Every key of the inputs map is an Input port, every key of
\* the outputs map an Output port, every key of the parameters map a
\* Parameter port, and every key is a port of that node; so a port's
\* connections are kept only under the map of its own orientation.
C28_MapsPartitionedByOrientation ==
    \A n \in DOMAIN m_nodes :
        /\ \A p \in DOMAIN m_nodes[n].inputsDescriptor : isInputPort(p) /\ OwnerOf(p) = n
        /\ \A p \in DOMAIN m_nodes[n].outputsDescriptor : isOutputPort(p) /\ OwnerOf(p) = n
        /\ \A p \in DOMAIN m_nodes[n].parametersInputsDescriptor :
               isParameterPort(p) /\ OwnerOf(p) = n

\* C29: group membership in the registry mirrors the group's member set.
\* From the construction of a group over the registered nodes S until it is
\* ungrouped, the member list of its descriptor holds exactly the
\* descriptors of S, and groupsOf(n) holds the group for every n in S.
C29_MembershipMirrorsGroup ==
    \A g \in GroupItems :
        (~items[g].pending /\ g \in DOMAIN m_groups) =>
            /\ Range(m_groups[g].memberNodes) = items[g].members \cap DOMAIN m_nodes
            /\ \A n \in items[g].members \cap DOMAIN m_nodes : g \in groupsOf(n)

\* some thread that is inside a query can take a step
SomeQueryRuns ==
    \E t \in Threads : InQuery(t) /\ ENABLED QueryStep(t)

\* C30: every registry call returns.  In every state reached through node
\* and port registration, group creation (a group of groups included) and
\* ungrouping, hasConnection(p) and getConnections(p) return for every port
\* p: the recursion through the forwarding tables stays within the depth
\* of the nesting, a call that calls other registry operations under the
\* re-entrant lock does not block on itself, and two threads' calls do not
\* block each other for ever.
C30_EveryQueryReturns ==
    /\ [](\A t \in Threads : Len(threads.stack[t]) < MaxDepth)
    /\ []((\E t \in Threads : InQuery(t)) => SomeQueryRuns)
    /\ \A t \in Threads : InQuery(t) ~> ~InQuery(t)

====
